---------------------------- MODULE Spec2Model ----------------------------
(***************************************************************************)
(* A model of the s3-bucket-browser backend: the realtime hub (hub.go,     *)
(* kept in src/backend/internal/api/handlers_test.go from line 105) and    *)
(* the facet indexer (handlers.go, kept in src/unnamed/part_001 from line  *)
(* 575), over the storage accessor (internal/s3/service.go) and the cache  *)
(* port (src/unnamed/part_002).                                            *)
(*                                                                         *)
(* The specifications share the variables: HubSpec runs the hub, its       *)
(* poller and the connections' pumps (HubObsSpec keeps history variables   *)
(* beside them); IdxSpec runs the indexing passes, the reindex endpoint    *)
(* and the cache over a bucket that changes; FacetsSpec runs the passes    *)
(* and the getFacets requests over a bucket that stays as it is; ScanSpec, *)
(* ConcSpec and MissSpec run parts of the indexer over a fixed bucket (a   *)
(* larger catalogue, two passes at once, a storage that answers).          *)
(* HttpSpec runs the endpoints on single objects, QuerySpec the list       *)
(* endpoint on a request that came in, MatchSpec matchesFilter on a record *)
(* and a filter, PageSpec the paging of a listing, KeySpec the key         *)
(* classifiers, SlotSpec getSlotRange on a slot and VersionSpec the sort   *)
(* of the versions facet.  HubLiveSpec is HubSpec under the scheduler's    *)
(* fairness; WorkLiveSpec runs one pass with its workers' fetches in       *)
(* flight, under fairness, and PoolSpec two such passes at once.           *)
(* HubStopSpec is HubLiveSpec with the context that may be cancelled,      *)
(* HubSentSpec HubSpec over connections that stay up, with the history of  *)
(* what each was sent; ListSpec runs one listing of the storage,           *)
(* SlotFacetSpec the sort of the slot ranges facet, and AgreeSpec an       *)
(* index pass and a list request over the same bucket.                     *)
(***************************************************************************)
EXTENDS Integers, Sequences, FiniteSets, TLC

\* ------------------------------------------------------------------ bounds

\* Objects that may exist in the bucket are named 1..MaxKeys.
MaxKeys == 2

\* Capacity of a client's outbound queue.  ServeWs makes it with 256 slots;
\* the model keeps the mechanism and scales the capacity.
SendBuf == 1

Keys == 1..MaxKeys

\* The versions facet is sorted for sets of at most MaxVersions versions.
MaxVersions == 3

\* getSlotRange is applied to the slots of the windows 0..MaxMillions.
MaxMillions == 40

\* The objects of the indexer's scans are named 1..MaxObjs.
MaxObjs == 6

\* The lists that are paginated have up to MaxTotal records.
MaxTotal == 45

Catalogue == 1..MaxObjs

\* The connections that may be opened during a run.
Clients == {"c1", "c2"}

\* Connections are named in the order they are opened.
Earlier(c) == IF c = "c2" THEN {"c1"} ELSE {}

NoClient == "none"

VARIABLES
    \* storage backend
    bucket,      \* the keys present in the bucket
    \* Hub (hub.go)
    clients,     \* Hub.clients: the registered clients
    queue,       \* Client.send of each client: the buffered messages
    closed,      \* whether Client.send has been closed
    hubPc,       \* Hub.Run: "select", "regLock" inside the register case, or
                 \* "returned"
    hubCl,       \* the client of the register case being handled
    mutex,       \* Hub.mutex: "free" or "poller"
    lastFiles,   \* Hub.lastFiles
    pollPc,      \* pollForNewFiles: "wait", "lock", "send", "update" or
                 \* "returned"
    objects,     \* pollForNewFiles' local listing (empty between iterations)
    srv,         \* ServeWs of each connection: "idle", "registering", "served"
    rp,          \* readPump: "off", "reading", "unregistering", "done"
    wp,          \* writePump: "off", "running", "done"
    ctxDone,     \* whether the context given to Hub.Run has been cancelled
    \* observation of the hub (history, read by no action's guard)
    owed,        \* per client: the keys put in the bucket while it was registered,
                 \* still there, and in no listing enqueued to it since
    polled,      \* "stale" after a bucket change, "listed", then "done"
    sent,        \* per client: the object counts of the listings enqueued to
                 \* it, in the order they were enqueued
    \* Handler (handlers.go) and the cache
    cacheService,   \* whether Handler.cacheService is non-nil
    cache,          \* the value stored under metadataOptionsKey: <<>> or <<v>>
    filterOptions,  \* the fields of the object Handler.filterOptions points to
    pass,           \* the indexMetadata goroutines: where each is, its locals
    rdPc,           \* GetMetadataOptions: "idle", "check" or "encode"
    options,        \* GetMetadataOptions' local pointer: to the live object, or
                    \* to an object no longer live with the fields it has
    rdRead,         \* the facet lists the encoder has read for the response
    \* the HTTP endpoints on objects and records
    http            \* the last request served: what it named, whether the
                    \* storage was asked for the object, and the response

hubState == <<clients, queue, closed, hubPc, hubCl, mutex, lastFiles, pollPc,
              objects, srv, rp, wp, ctxDone>>

hubObs == <<owed, polled, sent>>

idxState == <<cacheService, cache, filterOptions, pass, rdPc, options, rdRead>>

vars == <<bucket, hubState, hubObs, idxState, http>>

\* --------------------------------------------------------------- helpers

Min(S) == CHOOSE x \in S : \A y \in S : x <= y

RECURSIVE SortedSeq(_)
\* The keys of S in ascending order.
SortedSeq(S) == IF S = {} THEN <<>> ELSE <<Min(S)>> \o SortedSeq(S \ {Min(S)})

Range(s) == {s[i] : i \in 1..Len(s)}

\* Service.ListObjects: the Contents of one ListObjectsV2 call, made without
\* a continuation token.  The storage backend answers with the bucket's keys
\* in ascending key order, as many as its page holds.
ListObjectsPaged(b, pageKeys) ==
    SubSeq(SortedSeq(b), 1, IF Cardinality(b) < pageKeys THEN Cardinality(b) ELSE pageKeys)

\* Service.ListObjects on a bucket that the backend's page holds (S3's page
\* is 1000 keys).
ListObjects(b) == ListObjectsPaged(b, Cardinality(b))

\* json.Marshal of a listing: the bytes carry the listing, in its order.
Marshal(objs) == [json |-> objs]

\* The listing a message carries (what the browser's JSON.parse gives back).
Unmarshal(msg) == msg.json

\* ---------------------------------------------------------------- strings

\* A string is the sequence of its bytes (ASCII codes).
IsDigit(ch) == ch >= 48 /\ ch <= 57

IsAlnum(ch) == IsDigit(ch) \/ (ch >= 65 /\ ch <= 90) \/ (ch >= 97 /\ ch <= 122)

\* Go's < on strings: byte-wise lexicographic.
StrLess(a, b) ==
    \E i \in 1..(Len(b)) :
        /\ \A j \in 1..(i - 1) : j <= Len(a) /\ a[j] = b[j]
        /\ i - 1 <= Len(a)
        /\ (i > Len(a) \/ a[i] < b[i])

HasSuffix(str, suf) ==
    /\ Len(suf) <= Len(str)
    /\ SubSeq(str, Len(str) - Len(suf) + 1, Len(str)) = suf

RECURSIVE DigitsValue(_)
\* The number a non-empty sequence of digits writes.
DigitsValue(d) ==
    IF Len(d) = 0 THEN 0
    ELSE 10 * DigitsValue(SubSeq(d, 1, Len(d) - 1)) + (d[Len(d)] - 48)

\* A 64-bit quantity too wide for a numeral here is kept as four limbs of
\* six decimal digits, the lowest first (enough for 100 * 2^63).
WideZero == <<0, 0, 0, 0>>
Two63 == <<775808, 36854, 223372, 9>>        \* 9223372036854775808
Two64 == <<551616, 73709, 446744, 18>>       \* 18446744073709551616

\* The limbs of a sum of limbs, each below 2 * 10^9, with the carries taken.
Carry(a) ==
    LET a2 == a[2] + (a[1] \div 1000000)
        a3 == a[3] + (a2 \div 1000000)
        a4 == a[4] + (a3 \div 1000000)
    IN  <<a[1] % 1000000, a2 % 1000000, a3 % 1000000, a4>>

WideMul(x, n) == Carry(<<x[1] * n, x[2] * n, x[3] * n, x[4] * n>>)
WideAdd(x, y) == Carry(<<x[1] + y[1], x[2] + y[2], x[3] + y[3], x[4] + y[4]>>)
WideOf(n) == Carry(<<n, 0, 0, 0>>)

WideLess(x, y) ==
    \E i \in 1..4 : x[i] < y[i] /\ \A j \in (i + 1)..4 : x[j] = y[j]

\* x - y for x >= y.
WideSub(x, y) ==
    LET d1 == x[1] - y[1]
        b1 == IF d1 < 0 THEN 1 ELSE 0
        d2 == x[2] - y[2] - b1
        b2 == IF d2 < 0 THEN 1 ELSE 0
        d3 == x[3] - y[3] - b2
        b3 == IF d3 < 0 THEN 1 ELSE 0
    IN  <<d1 + 1000000 * b1, d2 + 1000000 * b2, d3 + 1000000 * b3, x[4] - y[4] - b3>>

\* The numeral of a quantity that has one here (below 2 * 10^9).
Narrow(x) == CHOOSE n \in {x[1] + 1000000 * x[2]} : x[3] = 0 /\ x[4] = 0 /\ x[2] < 2000

RECURSIVE Mod64(_)
\* x modulo 2^64.
Mod64(x) == IF WideLess(x, Two64) THEN x ELSE Mod64(WideSub(x, Two64))

\* The int a non-negative quantity becomes when it is kept in 64 bits.
Wrap(x) ==
    LET low == Mod64(x)
    IN  IF WideLess(low, Two63) THEN [neg |-> FALSE, mag |-> low]
        ELSE [neg |-> TRUE, mag |-> WideSub(Two64, low)]

\* v + n in 64 bits, for a numeral n >= 0.
WrapAdd(v, n) ==
    IF ~v.neg THEN Wrap(WideAdd(v.mag, WideOf(n)))
    ELSE IF WideLess(WideOf(n), v.mag) THEN [neg |-> TRUE, mag |-> WideSub(v.mag, WideOf(n))]
    ELSE [neg |-> FALSE, mag |-> WideSub(WideOf(n), v.mag)]

IntZero == [neg |-> FALSE, mag |-> WideZero]

\* The 64-bit int of a numeral.
Int64Of(n) == [neg |-> n < 0, mag |-> WideOf(IF n < 0 THEN 0 - n ELSE n)]

\* The quantity a sequence of at most 19 digits writes: each limb is what
\* six of the digits write.
WideDigits(d) ==
    [i \in 1..4 |->
        LET last == Len(d) - 6 * (i - 1)
            first == IF last - 5 > 1 THEN last - 5 ELSE 1
        IN  IF last < 1 THEN 0 ELSE DigitsValue(SubSeq(d, first, last))]

RECURSIVE StripZeros(_)
StripZeros(d) == IF Len(d) > 0 /\ d[1] = 48 THEN StripZeros(Tail(d)) ELSE d

\* strconv.ParseInt(str, 10, 64): an optional sign and a non-empty sequence
\* of digits whose value fits 64 bits; anything else is an error.
ParseInt(str) ==
    LET signed == Len(str) > 0 /\ str[1] \in {43, 45}
        neg == signed /\ str[1] = 45
        digits == IF signed THEN Tail(str) ELSE str
        sig == StripZeros(digits)
    IN  IF Len(digits) = 0 \/ \E i \in 1..Len(digits) : ~IsDigit(digits[i])
          THEN [ok |-> FALSE, neg |-> FALSE, mag |-> WideZero]
        ELSE IF Len(sig) > 19
          THEN [ok |-> FALSE, neg |-> FALSE, mag |-> WideZero]
        ELSE IF (IF neg THEN WideLess(Two63, WideDigits(sig))
                        ELSE ~WideLess(WideDigits(sig), Two63))
          THEN [ok |-> FALSE, neg |-> FALSE, mag |-> WideZero]
        ELSE [ok |-> TRUE, neg |-> neg /\ sig # <<>>, mag |-> WideDigits(sig)]

\* strconv.Atoi / strconv.ParseInt(_, 10, 64) where the value is kept as a
\* numeral: 0 with an error, as the callers read it.
Atoi(str) ==
    LET p == ParseInt(str)
    IN  IF p.ok
          THEN [ok |-> TRUE, val |-> IF p.neg THEN 0 - Narrow(p.mag) ELSE Narrow(p.mag)]
          ELSE [ok |-> FALSE, val |-> 0]

RECURSIVE FormatInt(_)
\* strconv.FormatInt(n, 10) for n >= 0.
FormatInt(n) == IF n < 10 THEN <<48 + n>> ELSE FormatInt(n \div 10) \o <<48 + (n % 10)>>

StrSnapshotDash == <<115, 110, 97, 112, 115, 104, 111, 116, 45>>   \* "snapshot-"
StrDotJson == <<46, 106, 115, 111, 110>>                \* ".json"
StrDotTarGz == <<46, 116, 97, 114, 46, 103, 122>>    \* ".tar.gz"
StrLt1M == <<60, 32, 49, 77>>                      \* "< 1M"
StrMDash == <<77, 45>>                             \* "M-"
StrM == <<77>>                                     \* "M"
StrUnknown == <<117, 110, 107, 110, 111, 119, 110>> \* "unknown"

\* ------------------------------------------------- naming conventions

\* The matches of snapshotRegex, `snapshot-(\d+)-([A-Za-z0-9]+)\.json$`,
\* that start at position i of key: <<digits, node>>, at most one.
SnapshotMatchAt(key, i) ==
    LET n == Len(key)
        ds == i + Len(StrSnapshotDash)     \* where the digits start
    IN  {<<SubSeq(key, ds, de), SubSeq(key, de + 2, n - Len(StrDotJson))>> :
            de \in {e \in ds..n :
                /\ SubSeq(key, i, ds - 1) = StrSnapshotDash
                /\ \A j \in ds..e : IsDigit(key[j])
                /\ e + 1 <= n /\ key[e + 1] = 45
                /\ e + 2 <= n - Len(StrDotJson)
                /\ \A j \in (e + 2)..(n - Len(StrDotJson)) : IsAlnum(key[j])
                /\ HasSuffix(key, StrDotJson)}}

\* snapshotRegex.FindStringSubmatch(key): the leftmost match, or none.
SnapshotMatch(key) ==
    LET starts == {i \in 1..Len(key) : SnapshotMatchAt(key, i) # {}}
    IN  IF starts = {} THEN {} ELSE SnapshotMatchAt(key, Min(starts))

isSnapshotMetadataFile(key) == SnapshotMatch(key) # {}

\* extractSlotAndNode taking a slot of 0 for no slot.
extractSlotAndNodeNoZero(key) ==
    IF SnapshotMatch(key) = {} THEN <<0, <<>>>>
    ELSE LET m == CHOOSE x \in SnapshotMatch(key) : TRUE
         IN  IF ~Atoi(m[1]).ok \/ Atoi(m[1]).val = 0 THEN <<0, <<>>>>
             ELSE <<Atoi(m[1]).val, m[2]>>

\* extractSlotAndNode: <<slot, node>>, or <<0, "">> without a match or with
\* digits that ParseInt does not take.
extractSlotAndNode(key) ==
    IF SnapshotMatch(key) = {} THEN <<0, <<>>>>
    ELSE LET m == CHOOSE x \in SnapshotMatch(key) : TRUE
         IN  IF ~Atoi(m[1]).ok THEN <<0, <<>>>> ELSE <<Atoi(m[1]).val, m[2]>>

\* getSlotRange's window.
rangeSize == 1000000

\* Six digits of a limb, and strconv.FormatInt(v, 10) of a 64-bit int.
Pad6(n) ==
    <<48 + ((n \div 100000) % 10), 48 + ((n \div 10000) % 10),
      48 + ((n \div 1000) % 10), 48 + ((n \div 100) % 10),
      48 + ((n \div 10) % 10), 48 + (n % 10)>>

FormatInt64(v) ==
    LET x == v.mag
        top == IF x[4] # 0 THEN 4 ELSE IF x[3] # 0 THEN 3 ELSE IF x[2] # 0 THEN 2 ELSE 1
        digits == FormatInt(x[top])
                    \o (IF top > 3 THEN Pad6(x[3]) ELSE <<>>)
                    \o (IF top > 2 THEN Pad6(x[2]) ELSE <<>>)
                    \o (IF top > 1 THEN Pad6(x[1]) ELSE <<>>)
    IN  IF v.neg THEN <<45>> \o digits ELSE digits

\* v / 1000000 as Go divides, the quotient cut toward zero, and q * 1000000
\* for such a quotient: a limb is six digits, so both move the limbs.
DivMillion(v) ==
    LET q == <<v.mag[2], v.mag[3], v.mag[4], 0>>
    IN  [neg |-> v.neg /\ q # WideZero, mag |-> q]

MulMillion(q) == [neg |-> q.neg, mag |-> <<0, q.mag[1], q.mag[2], q.mag[3]>>]

\* getSlotRange over all of int64: rangeStart + rangeSize wraps.
getSlotRange64(slot) ==
    LET rangeStart == MulMillion(DivMillion(slot))
        rangeEnd == WrapAdd(rangeStart, rangeSize)
    IN  IF rangeStart.mag = WideZero THEN StrLt1M
        ELSE FormatInt64(DivMillion(rangeStart)) \o StrMDash
                \o FormatInt64(DivMillion(rangeEnd)) \o StrM

\* getSlotRange of a slot kept as a numeral.
getSlotRange(slot) == getSlotRange64(Int64Of(slot))

\* s3.IsTarGzFile
IsTarGzFile(key) == HasSuffix(key, StrDotTarGz)

\* Service.ListObjects' IsMetadata flag.
IsMetadata(key) == HasSuffix(key, StrDotJson)

\* ------------------------------------------------------- sidecar content

\* A JSON string value, a JSON number value, and a field that is missing.
JStr(str) == [t |-> "string", s |-> str]
JNum == [t |-> "number", s |-> <<>>]
JNone == [t |-> "absent", s |-> <<>>]

\* The fields SimpleMetadata declares.
SimpleFields == {"solana_version", "status", "uploaded_by"}

\* The objects the bucket may hold: object k's key and content.  1 and 2
\* are sidecars with fully typed content, 3 is a sidecar whose
\* solana_version is a number, 4 is a sidecar that is no JSON at all, 5 is
\* a sidecar whose status is a number, 6 one whose solana_version is a
\* number and whose uploaded_by is "unknown", 7 is a .json object that is
\* not named as a sidecar and whose status is a number, every other one is
\* an archive.
ObjKey(k) ==
    CASE k = 1 -> <<115, 110, 97, 112, 115, 104, 111, 116, 45, 50, 53, 48, 48, 48, 48, 48, 45, 65, 46, 106, 115, 111, 110>>
      [] k = 2 -> <<115, 110, 97, 112, 115, 104, 111, 116, 45, 53, 48, 48, 48, 48, 48, 45, 66, 46, 106, 115, 111, 110>>
      [] k = 3 -> <<115, 110, 97, 112, 115, 104, 111, 116, 45, 49, 48, 48, 48, 48, 48, 48, 48, 45, 65, 46, 106, 115, 111, 110>>
      [] k = 4 -> <<115, 110, 97, 112, 115, 104, 111, 116, 45, 55, 45, 67, 46, 106, 115, 111, 110>>
      [] k = 5 -> <<115, 110, 97, 112, 115, 104, 111, 116, 45, 52, 50, 45, 66, 46, 106, 115, 111, 110>>
      [] k = 6 -> <<115, 110, 97, 112, 115, 104, 111, 116, 45, 56, 45, 68, 46, 106, 115, 111, 110>>
      [] k = 7 -> <<109, 101, 116, 97, 100, 97, 116, 97, 46, 106, 115, 111, 110>>
      [] OTHER -> <<115, 110, 97, 112, 115, 104, 111, 116, 45, 55, 45, 67, 46, 116, 97, 114, 46, 103, 122>>

ObjDoc(k) ==
    CASE k = 1 -> [kind |-> "object", fields |->
                    [solana_version |-> JStr(<<49, 46, 49, 48, 46, 48>>),
                     status |-> JStr(<<111, 107>>),
                     uploaded_by |-> JStr(<<117, 49>>)]]
      [] k = 2 -> [kind |-> "object", fields |->
                    [solana_version |-> JStr(<<49, 46, 57, 46, 48>>),
                     status |-> JStr(<<98, 97, 100>>),
                     uploaded_by |-> JStr(<<117, 50>>)]]
      [] k = 3 -> [kind |-> "object", fields |->
                    [solana_version |-> JNum,
                     status |-> JStr(<<110, 101, 119>>),
                     uploaded_by |-> JNone]]
      [] k = 5 -> [kind |-> "object", fields |->
                    [solana_version |-> JStr(<<49, 46, 49, 48, 46, 48>>),
                     status |-> JNum,
                     uploaded_by |-> JStr(<<117, 49>>)]]
      [] k = 6 -> [kind |-> "object", fields |->
                    [solana_version |-> JNum,
                     status |-> JStr(<<111, 107>>),
                     uploaded_by |-> JStr(StrUnknown)]]
      [] k = 7 -> [kind |-> "object", fields |->
                    [solana_version |-> JStr(<<49, 46, 57, 46, 48>>),
                     status |-> JNum,
                     uploaded_by |-> JNone]]
      [] OTHER -> [kind |-> "invalid", fields |->
                    [solana_version |-> JNone, status |-> JNone, uploaded_by |-> JNone]]

\* The other members of object k's content: a number with its value, a
\* string, or nothing.
JVal(n) == [t |-> "number", n |-> n]
JText == [t |-> "string", n |-> 0]
JMissing == [t |-> "absent", n |-> 0]

ObjExtra(k) ==
    CASE k = 1 -> [slot |-> JVal(1), hash |-> JStr(<<104, 49>>), timestamp |-> JVal(259500)]
      [] k = 3 -> [slot |-> JMissing, hash |-> JStr(<<65, 98, 99>>), timestamp |-> JVal(173000)]
      [] k = 5 -> [slot |-> JVal(3000000), hash |-> JNone, timestamp |-> JVal(86500)]
      [] k = 6 -> [slot |-> JText, hash |-> JNum, timestamp |-> JVal(173000)]
      [] k = 7 -> [slot |-> JVal(5), hash |-> JNone, timestamp |-> JMissing]
      [] OTHER -> [slot |-> JMissing, hash |-> JNone, timestamp |-> JMissing]

\* json.Unmarshal(body, &simpleMetadata): fails on content that is no JSON
\* object and on a declared field that holds anything but a string.
StrictDecodes(doc) ==
    /\ doc.kind = "object"
    /\ \A f \in SimpleFields : doc.fields[f].t \in {"string", "absent"}

\* json.Unmarshal(body, &rawData) into a map: fails unless a JSON object.
MapDecodes(doc) == doc.kind = "object"

\* A value the indexer keeps: not empty and not "unknown".
Usable(str) == str # <<>> /\ str # StrUnknown

\* What one sidecar's content adds to the field's set: after the strict
\* decode the struct's field (empty when missing); after the fallback
\* decode the map's entry when it is a string.
FieldValues(doc, f) ==
    IF StrictDecodes(doc)
      THEN {v \in {doc.fields[f].s} : Usable(v)}
    ELSE IF MapDecodes(doc)
      THEN {v \in {doc.fields[f].s} : doc.fields[f].t = "string" /\ Usable(v)}
    ELSE {}

\* ------------------------------------------------------------- sorting

RECURSIVE Split(_, _)
\* strings.Split(str, sep) for a one-byte separator.
Split(str, sep) ==
    LET at == {i \in 1..Len(str) : str[i] = sep}
    IN  IF at = {} THEN <<str>>
        ELSE <<SubSeq(str, 1, Min(at) - 1)>>
                \o Split(SubSeq(str, Min(at) + 1, Len(str)), sep)

\* The less function of the versions' sort comparing the versions as text.
VersionLessAsText(a, b) == StrLess(a, b)

\* The less function of the versions' sort.Slice.
VersionLess(a, b) ==
    LET vI == Split(a, 46)
        vJ == Split(b, 46)
        Num(v, n) == Atoi(v[n])
        Both(n) == Len(vI) >= n /\ Len(vJ) >= n /\ Num(vI, n).ok /\ Num(vJ, n).ok
    IN  IF Both(1) /\ Num(vI, 1).val # Num(vJ, 1).val
          THEN Num(vI, 1).val < Num(vJ, 1).val
        ELSE IF Both(2) /\ Num(vI, 2).val # Num(vJ, 2).val
          THEN Num(vI, 2).val < Num(vJ, 2).val
        ELSE IF Both(3)
          THEN Num(vI, 3).val < Num(vJ, 3).val
        ELSE StrLess(a, b)

\* regexp `^(\d+)M` and strconv.Atoi on its group: 0 without a match.  The
\* group of a label of getSlotRange has at most 13 digits, so Atoi does not
\* fail on it; the number is kept in limbs.
LeadingNumber(str) ==
    LET ends == {e \in 1..Len(str) :
                    /\ \A j \in 1..e : IsDigit(str[j])
                    /\ e + 1 <= Len(str) /\ str[e + 1] = 77}
    IN  IF ends = {} THEN WideZero
        ELSE WideDigits(SubSeq(str, 1, CHOOSE e \in ends : \A x \in ends : x <= e))

\* The less function of the slot ranges' sort comparing the labels as text.
SlotRangeLessAsText(a, b) == StrLess(a, b)

\* The less function of the slot ranges' sort.Slice.
SlotRangeLess(a, b) ==
    IF a = StrLt1M THEN TRUE
    ELSE IF b = StrLt1M THEN FALSE
    ELSE WideLess(LeadingNumber(a), LeadingNumber(b))

\* The less function of each of the three kinds of sort.
SortLess(kind, a, b) ==
    CASE kind = "versions" -> VersionLess(a, b)
      [] kind = "slotRanges" -> SlotRangeLess(a, b)
      [] OTHER -> StrLess(a, b)

\* The slice a sort of the given kind leaves for the values of set S: every
\* value once, none before one that is less than it.
SortBy(S, kind) ==
    CHOOSE s \in [1..Cardinality(S) -> S] :
        /\ Range(s) = S
        /\ \A i \in DOMAIN s : \A j \in DOMAIN s : i < j => ~SortLess(kind, s[j], s[i])

\* ---------------------------------------------------------------- facets

\* FilterOptions with every facet empty.
EmptyFacets ==
    [SolanaVersions |-> <<>>, Statuses |-> <<>>, UploadedBy |-> <<>>,
     Nodes |-> <<>>, SlotRanges |-> <<>>]

\* The five maps of a pass, empty.
EmptyAcc == [versions |-> {}, statuses |-> {}, uploaders |-> {},
             nodes |-> {}, slotRanges |-> {}]

\* extractSlotAndNode of every key there is and getSlotRange of its slot,
\* worked out once.
SlotAndNodeTable == [k \in 1..(MaxObjs + 2) |-> extractSlotAndNode(ObjKey(k))]
SlotRangeTable == [k \in 1..(MaxObjs + 2) |-> getSlotRange(SlotAndNodeTable[k][1])]

\* The values the objects there are can put in each of the five maps.
MapValues(f) == UNION {FieldValues(ObjDoc(k), f) : k \in 1..(MaxObjs + 2)}

NamedKeys == {k \in 1..(MaxObjs + 2) : SlotAndNodeTable[k][1] > 0 /\ SlotAndNodeTable[k][2] # <<>>}

\* The sorts of every set of such values, worked out once.
SortedVersions == {<<S, SortBy(S, "versions")>> : S \in SUBSET MapValues("solana_version")}
SortedStatuses == {<<S, SortBy(S, "strings")>> : S \in SUBSET MapValues("status")}
SortedUploaders == {<<S, SortBy(S, "strings")>> : S \in SUBSET MapValues("uploaded_by")}
SortedNodes ==
    {<<S, SortBy(S, "strings")>> : S \in SUBSET {SlotAndNodeTable[k][2] : k \in NamedKeys}}
SortedSlotRanges ==
    {<<S, SortBy(S, "slotRanges")>> : S \in SUBSET {SlotRangeTable[k] : k \in NamedKeys}}

\* The sort of S in such a table.
Sorted(table, S) == (CHOOSE pair \in table : pair[1] = S)[2]

\* indexMetadata's five lists from the five maps.
FacetsOf(acc) ==
    [SolanaVersions |-> Sorted(SortedVersions, acc.versions),
     Statuses |-> Sorted(SortedStatuses, acc.statuses),
     UploadedBy |-> Sorted(SortedUploaders, acc.uploaders),
     Nodes |-> Sorted(SortedNodes, acc.nodes),
     SlotRanges |-> Sorted(SortedSlotRanges, acc.slotRanges)]

\* A worker's first critical section for object k: node and slot range
\* from the key, when the key gives both.
AccKey(acc, k) ==
    LET sn == SlotAndNodeTable[k]
    IN  IF sn[1] > 0 /\ sn[2] # <<>>
          THEN [acc EXCEPT !.nodes = @ \cup {sn[2]},
                           !.slotRanges = @ \cup {SlotRangeTable[k]}]
          ELSE acc

\* A worker that gives up what the pass has gathered when a content does
\* not decode at all.
AccDocAborting(acc, k) ==
    IF ~MapDecodes(ObjDoc(k)) THEN EmptyAcc
    ELSE [acc EXCEPT !.versions = @ \cup FieldValues(ObjDoc(k), "solana_version"),
                     !.statuses = @ \cup FieldValues(ObjDoc(k), "status"),
                     !.uploaders = @ \cup FieldValues(ObjDoc(k), "uploaded_by")]

\* A worker's second critical section for object k, whose content it got.
AccDoc(acc, k) ==
    [acc EXCEPT !.versions = @ \cup FieldValues(ObjDoc(k), "solana_version"),
                !.statuses = @ \cup FieldValues(ObjDoc(k), "status"),
                !.uploaders = @ \cup FieldValues(ObjDoc(k), "uploaded_by")]

\* The listing's metadata files: IsMetadata and the snapshot name.
MetadataFiles(objs) ==
    {k \in Range(objs) : IsMetadata(ObjKey(k)) /\ isSnapshotMetadataFile(ObjKey(k))}

\* The connection's transport: open from the upgrade until either pump
\* closes it (writePump's deferred c.conn.Close(), readPump's after its
\* unregister was taken).
ConnOpen(c) == srv[c] # "idle" /\ rp[c] # "done" /\ wp[c] # "done"

\* ------------------------------------------------------- storage backend

\* An uploader puts object k in the bucket.
BucketPut(k) ==
    /\ k \notin bucket
    /\ bucket' = bucket \cup {k}
    /\ UNCHANGED <<ctxDone, clients, queue, closed, hubPc, hubCl, mutex, lastFiles,
                   pollPc, objects, srv, rp, wp>>

\* Object k is deleted from the bucket.
BucketDelete(k) ==
    /\ k \in bucket
    /\ bucket' = bucket \ {k}
    /\ UNCHANGED <<ctxDone, clients, queue, closed, hubPc, hubCl, mutex, lastFiles,
                   pollPc, objects, srv, rp, wp>>

\* --------------------------------------------------------------- the hub

\* A register case that leaves out the test for an empty last listing.
RegisterGreetingAlways(lf) == <<Marshal(lf)>>

\* What the register case sends to the new client: the last listing when
\* there is one (len(h.lastFiles) > 0), else nothing.
RegisterGreeting(lf) == IF Len(lf) > 0 THEN <<Marshal(lf)>> ELSE <<>>

\* The select's send case on client.send: taken when the buffer has room.
HasRoom(q) == Len(q) < SendBuf

\* A poller that takes any change of the count for new files.
HasNewFilesOnChange(objs, lf) == Len(objs) # Len(lf)

\* A poller that takes a listing of as many objects for new files too.
HasNewFilesOrAsMany(objs, lf) == Len(objs) >= Len(lf)

\* The poller's test for new files.
HasNewFiles(objs, lf) == Len(objs) > Len(lf)

\* A broadcast case that evicts nobody.
BroadcastKeptAll(cs, q) == cs

\* The clients the broadcast case keeps: those whose send succeeded.
BroadcastKept(cs, q) == {c \in cs : HasRoom(q[c])}

\* The queues after the broadcast case: the message appended where the send
\* succeeded, the others left as they are (and closed).
BroadcastQueues(cs, q, msg) ==
    [c \in Clients |-> IF c \in BroadcastKept(cs, q) THEN Append(q[c], msg) ELSE q[c]]

\* The unregister case removing and closing whatever client it is given.
UnregisterAppliesAlways(cs, c) == TRUE

\* The unregister case's test: only a client still in the map is removed.
UnregisterApplies(cs, c) == c \in cs

\* The keys of the listings in a sequence of messages.
KeysIn(msgs) == UNION {Range(Unmarshal(msgs[i])) : i \in 1..Len(msgs)}

\* ServeWs: the upgrade succeeded, the client is made with an empty send
\* queue and the handler goes on to send it on h.register.
ServeWs(c) ==
    /\ srv[c] = "idle"
    /\ \A d \in Earlier(c) : srv[d] # "idle"
    /\ srv' = [srv EXCEPT ![c] = "registering"]
    /\ UNCHANGED <<ctxDone, bucket, clients, queue, closed, hubPc, hubCl, mutex, lastFiles,
                   pollPc, objects, rp, wp>>

\* Hub.Run, case client := <-h.register: the rendezvous with ServeWs, which
\* goes on to start both pumps; the hub adds the client and goes for the
\* mutex.
HubRegister(c) ==
    /\ hubPc = "select"
    /\ srv[c] = "registering"
    /\ clients' = clients \cup {c}
    /\ hubPc' = "regLock"
    /\ hubCl' = c
    /\ srv' = [srv EXCEPT ![c] = "served"]
    /\ rp' = [rp EXCEPT ![c] = "reading"]
    /\ wp' = [wp EXCEPT ![c] = "running"]
    /\ UNCHANGED <<ctxDone, bucket, queue, closed, mutex, lastFiles, pollPc, objects>>

\* Hub.Run, register case from h.mutex.Lock() to h.mutex.Unlock(): a
\* blocking send of the last listing to the new client.
HubGreet ==
    /\ hubPc = "regLock"
    /\ mutex = "free"
    /\ LET g == RegisterGreeting(lastFiles) IN
         /\ Len(queue[hubCl]) + Len(g) <= SendBuf
         /\ queue' = [queue EXCEPT ![hubCl] = @ \o g]
    /\ hubPc' = "select"
    /\ hubCl' = NoClient
    /\ UNCHANGED <<ctxDone, bucket, clients, closed, mutex, lastFiles, pollPc, objects,
                   srv, rp, wp>>

\* Hub.Run, case client := <-h.unregister: the rendezvous with readPump's
\* deferred send, after which readPump closes the connection.
HubUnregister(c) ==
    /\ hubPc = "select"
    /\ rp[c] = "unregistering"
    /\ IF UnregisterApplies(clients, c)
         THEN /\ clients' = clients \ {c}
              /\ closed' = [closed EXCEPT ![c] = TRUE]
         ELSE UNCHANGED <<clients, closed>>
    /\ rp' = [rp EXCEPT ![c] = "done"]
    /\ UNCHANGED <<ctxDone, bucket, queue, hubPc, hubCl, mutex, lastFiles, pollPc, objects,
                   srv, wp>>

\* Hub.Run, case message := <-h.broadcast: the rendezvous with the poller's
\* send, then the loop over the clients with its non-blocking sends.
HubBroadcast ==
    /\ hubPc = "select"
    /\ pollPc = "send"
    /\ LET msg == Marshal(objects)
           kept == BroadcastKept(clients, queue) IN
         /\ queue' = BroadcastQueues(clients, queue, msg)
         /\ closed' = [c \in Clients |-> closed[c] \/ (c \in clients /\ c \notin kept)]
         /\ clients' = kept
    /\ pollPc' = "update"
    /\ UNCHANGED <<ctxDone, bucket, hubPc, hubCl, mutex, lastFiles, objects, srv, rp, wp>>

\* ------------------------------------------------------------ the poller

\* pollForNewFiles, case <-ticker.C: the listing succeeds (with a cancelled
\* context ListObjectsV2 fails).
PollList ==
    /\ pollPc = "wait"
    /\ ~ctxDone
    /\ objects' = ListObjects(bucket)
    /\ pollPc' = "lock"
    /\ UNCHANGED <<ctxDone, bucket, clients, queue, closed, hubPc, hubCl, mutex, lastFiles,
                   srv, rp, wp>>

\* pollForNewFiles, case <-ticker.C: the listing fails; logged, continue.
PollListError ==
    /\ pollPc = "wait"
    /\ UNCHANGED <<bucket, hubState>>

\* pollForNewFiles: h.mutex.Lock() and the comparison.  With new files the
\* poller goes on to send on h.broadcast holding the mutex; without, it
\* unlocks and waits for the next tick.
PollCompare ==
    /\ pollPc = "lock"
    /\ mutex = "free"
    /\ IF HasNewFiles(objects, lastFiles)
         THEN /\ mutex' = "poller"
              /\ pollPc' = "send"
              /\ UNCHANGED objects
         ELSE /\ mutex' = "free"
              /\ pollPc' = "wait"
              /\ objects' = <<>>
    /\ UNCHANGED <<ctxDone, bucket, clients, queue, closed, hubPc, hubCl, lastFiles,
                   srv, rp, wp>>

\* pollForNewFiles after the send on h.broadcast returned: h.lastFiles =
\* objects, h.mutex.Unlock().
PollUpdate ==
    /\ pollPc = "update"
    /\ lastFiles' = objects
    /\ mutex' = "free"
    /\ pollPc' = "wait"
    /\ objects' = <<>>
    /\ UNCHANGED <<ctxDone, bucket, clients, queue, closed, hubPc, hubCl,
                   srv, rp, wp>>

\* ------------------------------------------------------------- the pumps

\* readPump: ReadMessage returns an error (the peer went away, or the
\* connection was closed under it); the deferred function goes to send the
\* client on h.unregister.
ReadError(c) ==
    /\ rp[c] = "reading"
    /\ rp' = [rp EXCEPT ![c] = "unregistering"]
    /\ UNCHANGED <<ctxDone, bucket, clients, queue, closed, hubPc, hubCl, mutex, lastFiles,
                   pollPc, objects, srv, wp>>

\* writePump, case message, ok := <-c.send with ok: the message is taken
\* from the queue and written; a failed write ends the pump, which closes
\* the connection.
WriteMessage(c, ok) ==
    /\ wp[c] = "running"
    /\ queue[c] # <<>>
    /\ ok => ConnOpen(c)
    /\ queue' = [queue EXCEPT ![c] = Tail(@)]
    /\ wp' = [wp EXCEPT ![c] = IF ok THEN "running" ELSE "done"]
    /\ UNCHANGED <<ctxDone, bucket, clients, closed, hubPc, hubCl, mutex, lastFiles,
                   pollPc, objects, srv, rp>>

\* writePump, case message, ok := <-c.send with !ok (the hub closed the
\* queue and it is drained), or a ping that fails: the pump ends and closes
\* the connection.
WriteStop(c) ==
    /\ wp[c] = "running"
    /\ queue[c] = <<>>
    /\ wp' = [wp EXCEPT ![c] = "done"]
    /\ UNCHANGED <<ctxDone, bucket, clients, queue, closed, hubPc, hubCl, mutex, lastFiles,
                   pollPc, objects, srv, rp>>

\* ---------------------------------------------------------- cancellation

\* The context of Hub.Run and of the poller is cancelled.
Cancel ==
    /\ ~ctxDone
    /\ ctxDone' = TRUE
    /\ UNCHANGED <<bucket, clients, queue, closed, hubPc, hubCl, mutex, lastFiles,
                   pollPc, objects, srv, rp, wp>>

\* Hub.Run, case <-ctx.Done(): return.
HubReturn ==
    /\ hubPc = "select"
    /\ ctxDone
    /\ hubPc' = "returned"
    /\ UNCHANGED <<ctxDone, bucket, clients, queue, closed, hubCl, mutex, lastFiles,
                   pollPc, objects, srv, rp, wp>>

\* pollForNewFiles, case <-ctx.Done(): return.
PollReturn ==
    /\ pollPc = "wait"
    /\ ctxDone
    /\ pollPc' = "returned"
    /\ UNCHANGED <<ctxDone, bucket, clients, queue, closed, hubPc, hubCl, mutex,
                   lastFiles, objects, srv, rp, wp>>

\* ----------------------------------------------------------- the indexer

\* The indexMetadata goroutines that may run at once; "startup" is the one
\* NewHandler starts.  A slot that is "off" is never used.
Passes == {"startup", "later"}

\* The locals of a goroutine at pc with nothing gathered.
\* todo are the files still on filesChan, busy those a worker has taken and
\* is fetching, times how often each file's fetch has returned to a worker.
PassAt(pc) ==
    [pc |-> pc, got |-> EmptyFacets, todo |-> {}, acc |-> EmptyAcc, err |-> FALSE,
     busy |-> {}, times |-> [k \in Catalogue |-> 0]]

\* indexMetadata's pool: the workers one pass starts.
workerCount == 10

\* No goroutine runs in the slot: none was started, or it has returned.
Free(p) == pass[p].pc = "idle"

\* The slot a new goroutine takes.
NewPass == IF Free("startup") THEN "startup" ELSE "later"

\* go h.indexMetadata(...)
Spawn == [pass EXCEPT ![NewPass] = PassAt("start")]

\* The key the cache would give a pass that asks now.
CacheHolds == cacheService /\ cache # <<>>

\* The fields behind GetMetadataOptions' pointer.
Deref(o) == IF o.live THEN filterOptions ELSE o.val

\* Handler.filterOptions is pointed at another object: a pointer to the
\* object that was live keeps that object, with the fields it has.
Detached(o) == IF o.live THEN [live |-> FALSE, val |-> filterOptions] ELSE o

\* The condition of GetMetadataOptions' two ifs (options is never nil).
NoOptions(v) == Len(v.SolanaVersions) = 0 /\ Len(v.Statuses) = 0

\* The order in which the encoder reads FilterOptions' fields.
FacetOrder == <<"SolanaVersions", "Statuses", "UploadedBy", "Nodes", "SlotRanges">>

\* The response body from the five lists read.
Response(read) ==
    [SolanaVersions |-> read[1], Statuses |-> read[2], UploadedBy |-> read[3],
     Nodes |-> read[4], SlotRanges |-> read[5]]

\* The value another writer of the cache has left under metadataOptionsKey
\* (this program only reads and deletes the key): version "2.0.0", status
\* "ok", which no object of the bucket gives.
CachedOptions ==
    [SolanaVersions |-> <<<<50, 46, 48, 46, 48>>>>, Statuses |-> <<<<111, 107>>>>,
     UploadedBy |-> <<>>, Nodes |-> <<>>, SlotRanges |-> <<>>]

\* A cache get whose failure, with the key set, ends the pass.
PassCacheGetFatal(p, ok) ==
    /\ pass[p].pc = "start"
    /\ ok => CacheHolds
    /\ pass' = [pass EXCEPT ![p] =
                  IF ok THEN [PassAt("got") EXCEPT !.got = cache[1]]
                  ELSE IF CacheHolds THEN PassAt("idle") ELSE PassAt("list")]
    /\ UNCHANGED <<bucket, cacheService, cache, filterOptions, rdPc, options, rdRead>>

\* indexMetadata, h.cacheService.Get: with a cache service and a value
\* under the key the call may return it (ok); without, or when the call
\* fails, the pass goes on to list.
PassCacheGet(p, ok) ==
    /\ pass[p].pc = "start"
    /\ ok => CacheHolds
    /\ pass' = [pass EXCEPT ![p] =
                  IF ok THEN [PassAt("got") EXCEPT !.got = cache[1]] ELSE PassAt("list")]
    /\ UNCHANGED <<bucket, cacheService, cache, filterOptions, rdPc, options, rdRead>>

\* A cache hit that keeps the facets in memory as they are.
PassAdoptNothing(p) ==
    /\ pass[p].pc = "got"
    /\ pass' = [pass EXCEPT ![p] = PassAt("idle")]
    /\ UNCHANGED <<bucket, cacheService, cache, filterOptions, rdPc, options, rdRead>>

\* indexMetadata on a cache hit: h.filterOptions = &options under the write
\* lock, return.
PassAdopt(p) ==
    /\ pass[p].pc = "got"
    /\ filterOptions' = pass[p].got
    /\ options' = Detached(options)
    /\ pass' = [pass EXCEPT ![p] = PassAt("idle")]
    /\ UNCHANGED <<bucket, cacheService, cache, rdPc, rdRead>>

\* indexMetadata, ListObjects succeeds: the metadata files are picked and,
\* when there are some, handed to the workers in the listing's order.
PassList(p) ==
    /\ pass[p].pc = "list"
    /\ LET files == MetadataFiles(ListObjects(bucket)) IN
         pass' = [pass EXCEPT ![p] =
                    IF files = {} THEN PassAt("none")
                    ELSE [PassAt("work") EXCEPT !.todo = files]]
    /\ UNCHANGED <<bucket, cacheService, cache, filterOptions, rdPc, options, rdRead>>

\* indexMetadata with no metadata file: under the write lock
\* h.filterOptions is pointed at a new empty FilterOptions, return.
PassEmpty(p) ==
    /\ pass[p].pc = "none"
    /\ filterOptions' = EmptyFacets
    /\ options' = Detached(options)
    /\ pass' = [pass EXCEPT ![p] = PassAt("idle")]
    /\ UNCHANGED <<bucket, cacheService, cache, rdPc, rdRead>>

\* A failed listing that resets the facets in memory.
PassListErrorResets(p) ==
    /\ pass[p].pc = "list"
    /\ filterOptions' = EmptyFacets
    /\ options' = Detached(options)
    /\ pass' = [pass EXCEPT ![p] = PassAt("idle")]
    /\ UNCHANGED <<bucket, cacheService, cache, rdPc, rdRead>>

\* indexMetadata, ListObjects fails: logged, return.
PassListError(p) ==
    /\ pass[p].pc = "list"
    /\ pass' = [pass EXCEPT ![p] = PassAt("idle")]
    /\ UNCHANGED <<bucket, cacheService, cache, filterOptions, rdPc, options, rdRead>>

\* indexMetadata, a worker on metadata file k, the next one on filesChan:
\* node and slot range from the key, then GetObject and io.ReadAll; on an
\* error of either the worker logs and continues with the next file, else
\* it decodes the content and adds its values.  The object must still be
\* there for the fetch to succeed.
WorkerProcess(p, k, ok) ==
    /\ pass[p].pc = "work"
    /\ pass[p].todo # {}
    /\ k = Min(pass[p].todo)
    /\ ok => k \in bucket
    /\ pass' = [pass EXCEPT ![p].todo = @ \ {k},
                            ![p].acc = IF ok THEN AccDoc(AccKey(@, k), k) ELSE AccKey(@, k),
                            ![p].err = @ \/ ~ok]
    /\ UNCHANGED <<bucket, cacheService, cache, filterOptions, rdPc, options, rdRead>>

\* indexMetadata, a worker receives metadata file k, the next one on
\* filesChan, adds node and slot range from its key and calls GetObject.  A
\* worker is there to receive while fewer than workerCount are fetching.
WorkerTake(p, k) ==
    /\ pass[p].pc = "work"
    /\ pass[p].todo # {}
    /\ k = Min(pass[p].todo)
    /\ Cardinality(pass[p].busy) < workerCount
    /\ pass' = [pass EXCEPT ![p].todo = @ \ {k},
                            ![p].busy = @ \cup {k},
                            ![p].acc = AccKey(@, k)]
    /\ UNCHANGED <<bucket, cacheService, cache, filterOptions, rdPc, options, rdRead>>

\* indexMetadata, the fetch of file k returns to its worker: on an error of
\* GetObject or io.ReadAll the worker logs and goes for the next file, else
\* it decodes the content and adds its values.
WorkerDone(p, k, ok) ==
    /\ pass[p].pc = "work"
    /\ k \in pass[p].busy
    /\ ok => k \in bucket
    /\ pass' = [pass EXCEPT ![p].busy = @ \ {k},
                            ![p].acc = IF ok THEN AccDoc(@, k) ELSE @,
                            ![p].err = @ \/ ~ok,
                            ![p].times[k] = @ + 1]
    /\ UNCHANGED <<bucket, cacheService, cache, filterOptions, rdPc, options, rdRead>>

\* A pass that writes its lists as soon as filesChan is empty, without
\* waiting for the workers.
PassFinishNoWait(p) ==
    /\ pass[p].pc = "work"
    /\ pass[p].todo = {}
    /\ filterOptions' = FacetsOf(pass[p].acc)
    /\ pass' = [pass EXCEPT ![p] = PassAt("idle")]
    /\ UNCHANGED <<bucket, cacheService, cache, rdPc, options, rdRead>>

\* A pass that assigns only the lists it gathered from contents, and
\* leaves the nodes and slot ranges in memory as they are.
PassFinishPartly(p) ==
    /\ pass[p].pc = "work"
    /\ pass[p].todo = {}
    /\ filterOptions' = [FacetsOf(pass[p].acc) EXCEPT !.Nodes = filterOptions.Nodes,
                                                      !.SlotRanges = filterOptions.SlotRanges]
    /\ pass' = [pass EXCEPT ![p] = PassAt("idle")]
    /\ UNCHANGED <<bucket, cacheService, cache, rdPc, options, rdRead>>

\* indexMetadata after wg.Wait(): the five lists are sorted and assigned,
\* under the write lock, to the fields of the object h.filterOptions points
\* to.
PassFinish(p) ==
    /\ pass[p].pc = "work"
    /\ pass[p].todo = {}
    /\ pass[p].busy = {}
    /\ filterOptions' = FacetsOf(pass[p].acc)
    /\ pass' = [pass EXCEPT ![p] = PassAt("idle")]
    /\ UNCHANGED <<bucket, cacheService, cache, rdPc, options, rdRead>>

\* DebugReindex: the key is deleted from the cache when there is a cache
\* service (a failure, ~ok, is logged), and a pass is started.
DebugReindex(ok) ==
    /\ \E p \in Passes : Free(p)
    /\ ok \/ cacheService
    /\ cache' = IF cacheService /\ ok THEN <<>> ELSE cache
    /\ pass' = Spawn
    /\ UNCHANGED <<bucket, cacheService, filterOptions, rdPc, options, rdRead>>

\* The key expires in the cache.
CacheExpire ==
    /\ cache # <<>>
    /\ cache' = <<>>
    /\ UNCHANGED <<bucket, cacheService, filterOptions, pass, rdPc, options, rdRead>>

\* GetMetadataOptions: options := h.filterOptions under the read lock.
ReaderSnapshot ==
    /\ rdPc = "idle"
    /\ rdPc' = "check"
    /\ options' = [live |-> TRUE, val |-> EmptyFacets]
    /\ UNCHANGED <<bucket, cacheService, cache, filterOptions, pass, rdRead>>

\* GetMetadataOptions' two ifs.  Without versions and statuses behind the
\* pointer the cache is asked, and a value it returns (ok) becomes both the
\* live object and the one to encode; still without, the pointer is set to
\* a new empty FilterOptions and a pass is started.
ReaderResolve(ok) ==
    /\ rdPc = "check"
    /\ ok => (NoOptions(Deref(options)) /\ CacheHolds)
    /\ IF ok
         THEN /\ filterOptions' = cache[1]
              /\ options' = [live |-> TRUE, val |-> EmptyFacets]
              /\ UNCHANGED pass
         ELSE IF NoOptions(Deref(options))
           THEN /\ \E p \in Passes : Free(p)
                /\ options' = [live |-> FALSE, val |-> EmptyFacets]
                /\ pass' = Spawn
                /\ UNCHANGED filterOptions
           ELSE UNCHANGED <<filterOptions, options, pass>>
    /\ rdPc' = "encode"
    /\ UNCHANGED <<bucket, cacheService, cache, rdRead>>

\* The lists read once the encoder has read the next field behind pointer o.
ReadNext(read, o) == Append(read, Deref(o)[FacetOrder[Len(read) + 1]])

\* respondWithJSON: the encoder reads the next field behind the pointer,
\* holding no lock; with the fifth the response is written and the handler
\* returns.
ReaderEncode ==
    /\ rdPc = "encode"
    /\ IF Len(rdRead) < 4
         THEN /\ rdRead' = ReadNext(rdRead, options)
              /\ UNCHANGED <<rdPc, options>>
         ELSE /\ rdRead' = <<>>
              /\ rdPc' = "idle"
              /\ options' = [live |-> FALSE, val |-> EmptyFacets]
    /\ UNCHANGED <<bucket, cacheService, cache, filterOptions, pass>>

\* The handler's fields as NewHandler leaves them, no goroutine started.
\* ------------------------------------------- the endpoints on objects

\* time.Time, an instant: the days since 0001-01-01 UTC, which may be
\* negative, and the seconds of the day (nothing here has a fraction of a
\* second but the end of a day, which no timestamp of whole seconds is
\* after).  The zero time is the first instant of 0001-01-01.
ZeroTime == <<0, 0>>

\* The day of 1970-01-01.
EpochDay == 719162
SecondsPerDay == 86400

\* time.Unix(n, 0).
Unix(n) == <<EpochDay + (n \div SecondsPerDay), n % SecondsPerDay>>
IsZero(t) == t = ZeroTime
After(t, u) == t[1] > u[1] \/ (t[1] = u[1] /\ t[2] > u[2])
\* A Before for which the zero time is before nothing.
BeforeUnlessZero(t, u) == ~IsZero(t) /\ After(u, t)
Before(t, u) == After(u, t)

\* The record both record endpoints build from a sidecar's key and content
\* (FileSize, which nothing reads, is left out): after the strict decode
\* the three declared fields, with slot and node from the key; after the
\* fallback decode every member of the right type, with the key's slot and
\* node where the content gave none.
StrictRecord(k) ==
    LET key == ObjKey(k)
        doc == ObjDoc(k)
        sn == extractSlotAndNode(key)
        named == isSnapshotMetadataFile(key)
    IN  [FileName |-> key,
         SolanaVersion |-> doc.fields.solana_version.s,
         Status |-> doc.fields.status.s,
         UploadedBy |-> doc.fields.uploaded_by.s,
         Slot |-> IF named THEN sn[1] ELSE 0,
         Hash |-> <<>>,
         Timestamp |-> ZeroTime,
         Node |-> IF named THEN sn[2] ELSE <<>>,
         SlotRange |-> IF named THEN getSlotRange(sn[1]) ELSE <<>>]

StringMember(v) == IF v.t = "string" THEN v.s ELSE <<>>

FallbackRecord(k) ==
    LET key == ObjKey(k)
        doc == ObjDoc(k)
        extra == ObjExtra(k)
        sn == extractSlotAndNode(key)
        named == isSnapshotMetadataFile(key)
        own == IF extra.slot.t = "number" THEN extra.slot.n ELSE 0
        slot == IF named /\ own = 0 /\ sn[1] > 0 THEN sn[1] ELSE own
    IN  [FileName |-> key,
         SolanaVersion |-> StringMember(doc.fields.solana_version),
         Status |-> StringMember(doc.fields.status),
         UploadedBy |-> StringMember(doc.fields.uploaded_by),
         Slot |-> slot,
         Hash |-> StringMember(extra.hash),
         Timestamp |-> IF extra.timestamp.t = "number"
                         THEN Unix(extra.timestamp.n) ELSE ZeroTime,
         Node |-> IF named THEN sn[2] ELSE <<>>,
         SlotRange |-> IF named THEN getSlotRange(slot) ELSE <<>>]

\* strings.ToLower and strings.Contains on ASCII.
ToLower(str) == [i \in 1..Len(str) |-> IF str[i] \in 65..90 THEN str[i] + 32 ELSE str[i]]

Contains(str, sub) ==
    \E i \in 0..(Len(str) - Len(sub)) : SubSeq(str, i + 1, i + Len(sub)) = sub

\* matchesFilter with the search term compared as it was typed.
matchesFilterCaseSensitive(metadata, filter) ==
    IF filter.SolanaVersion # <<>> /\ metadata.SolanaVersion # filter.SolanaVersion THEN FALSE
    ELSE IF filter.Status # <<>> /\ metadata.Status # filter.Status THEN FALSE
    ELSE IF filter.UploadedBy # <<>> /\ metadata.UploadedBy # filter.UploadedBy THEN FALSE
    ELSE IF filter.Node # <<>> /\ metadata.Node # filter.Node THEN FALSE
    ELSE IF filter.SlotRange # <<>> /\ metadata.SlotRange # filter.SlotRange THEN FALSE
    ELSE IF filter.MinSlot > 0 /\ metadata.Slot < filter.MinSlot THEN FALSE
    ELSE IF filter.MaxSlot > 0 /\ metadata.Slot > filter.MaxSlot THEN FALSE
    ELSE IF ~IsZero(filter.StartTime) /\ Before(metadata.Timestamp, filter.StartTime) THEN FALSE
    ELSE IF ~IsZero(filter.EndTime) /\ After(metadata.Timestamp, filter.EndTime) THEN FALSE
    ELSE IF filter.SearchTerm # <<>>
      THEN LET searchTerm == filter.SearchTerm
           IN  ~ (/\ ~Contains(metadata.SolanaVersion, searchTerm)
                  /\ ~Contains(metadata.Status, searchTerm)
                  /\ ~Contains(metadata.UploadedBy, searchTerm)
                  /\ ~Contains(metadata.Node, searchTerm)
                  /\ ~Contains(metadata.Hash, searchTerm)
                  /\ ~Contains(metadata.FileName, searchTerm))
    ELSE TRUE

\* matchesFilter: the checks in the code's order, each one returning false.
matchesFilter(metadata, filter) ==
    IF filter.SolanaVersion # <<>> /\ metadata.SolanaVersion # filter.SolanaVersion THEN FALSE
    ELSE IF filter.Status # <<>> /\ metadata.Status # filter.Status THEN FALSE
    ELSE IF filter.UploadedBy # <<>> /\ metadata.UploadedBy # filter.UploadedBy THEN FALSE
    ELSE IF filter.Node # <<>> /\ metadata.Node # filter.Node THEN FALSE
    ELSE IF filter.SlotRange # <<>> /\ metadata.SlotRange # filter.SlotRange THEN FALSE
    ELSE IF filter.MinSlot > 0 /\ metadata.Slot < filter.MinSlot THEN FALSE
    ELSE IF filter.MaxSlot > 0 /\ metadata.Slot > filter.MaxSlot THEN FALSE
    ELSE IF ~IsZero(filter.StartTime) /\ Before(metadata.Timestamp, filter.StartTime) THEN FALSE
    ELSE IF ~IsZero(filter.EndTime) /\ After(metadata.Timestamp, filter.EndTime) THEN FALSE
    ELSE IF filter.SearchTerm # <<>>
      THEN LET searchTerm == ToLower(filter.SearchTerm)
           IN  ~ (/\ ~Contains(ToLower(metadata.SolanaVersion), searchTerm)
                  /\ ~Contains(ToLower(metadata.Status), searchTerm)
                  /\ ~Contains(ToLower(metadata.UploadedBy), searchTerm)
                  /\ ~Contains(ToLower(metadata.Node), searchTerm)
                  /\ ~Contains(ToLower(metadata.Hash), searchTerm)
                  /\ ~Contains(ToLower(metadata.FileName), searchTerm))
    ELSE TRUE

\* The calendar of time.Date: leap years, the days of a month, and the day
\* (since 0001-01-01) on which year-month-day falls; year 0 is the leap year
\* before year 1.
IsLeap(year) == year % 4 = 0 /\ (year % 100 # 0 \/ year % 400 = 0)

DaysIn(month, year) ==
    IF month = 2 THEN (IF IsLeap(year) THEN 29 ELSE 28)
    ELSE IF month \in {4, 6, 9, 11} THEN 30 ELSE 31

RECURSIVE DaysBefore(_, _)
DaysBefore(month, year) ==
    IF month = 1 THEN 0 ELSE DaysBefore(month - 1, year) + DaysIn(month - 1, year)

DayOf(year, month, day) ==
    365 * (year - 1) + ((year - 1) \div 4) - ((year - 1) \div 100) + ((year - 1) \div 400)
        + DaysBefore(month, year) + (day - 1)

\* time.Parse("2006-01-02", str): four digits, "-", two digits, "-", two
\* digits and nothing else, the month in 1..12 and the day one of the month.
ParseDate(str) ==
    LET shaped == /\ Len(str) = 10
                  /\ str[5] = 45 /\ str[8] = 45
                  /\ \A i \in {1, 2, 3, 4, 6, 7, 9, 10} : IsDigit(str[i])
        year == DigitsValue(SubSeq(str, 1, 4))
        month == DigitsValue(SubSeq(str, 6, 7))
        day == DigitsValue(SubSeq(str, 9, 10))
    IN  IF shaped /\ month \in 1..12 /\ day >= 1 /\ day <= DaysIn(month, year)
          THEN [ok |-> TRUE, day |-> DayOf(year, month, day)]
          ELSE [ok |-> FALSE, day |-> 0]

\* parseMetadataFilter's StartTime and EndTime from the parameters as sent
\* (the empty string for one that is missing): the start of the day, and the
\* last instant of the day.
ParseStartTime(str) ==
    IF str # <<>> /\ ParseDate(str).ok THEN <<ParseDate(str).day, 0>> ELSE ZeroTime

ParseEndTime(str) ==
    IF str # <<>> /\ ParseDate(str).ok
      THEN <<ParseDate(str).day, SecondsPerDay - 1>> ELSE ZeroTime

\* The values of startTime and of endTime a request may carry: none,
\* 1970-01-03, 0000-12-31, 0001-01-01, and two that are no date (1970-02-30,
\* 1970-1-3).
TimeParams ==
    {<<>>,
     <<49, 57, 55, 48, 45, 48, 49, 45, 48, 51>>,
     <<48, 48, 48, 48, 45, 49, 50, 45, 51, 49>>,
     <<48, 48, 48, 49, 45, 48, 49, 45, 48, 49>>,
     <<49, 57, 55, 48, 45, 48, 50, 45, 51, 48>>,
     <<49, 57, 55, 48, 45, 49, 45, 51>>}

\* The filters parseMetadataFilter may give: each parameter missing or with
\* one of a few values (a minSlot or maxSlot of -1 parses, and sets nothing
\* that is looked at).
Filters ==
    [SolanaVersion : {<<>>, <<49, 46, 49, 48, 46, 48>>},
     Status : {<<>>, <<111, 107>>},
     UploadedBy : {<<>>, <<117, 49>>},
     Node : {<<>>, <<65>>},
     SlotRange : {<<>>, <<50, 77, 45, 51, 77>>},
     MinSlot : {-1, 0, 500000},
     MaxSlot : {0, 2500000},
     StartTime : {ParseStartTime(s) : s \in TimeParams},
     EndTime : {ParseEndTime(s) : s \in TimeParams},
     SearchTerm : {<<>>, <<65, 66, 67>>, <<115, 110, 97, 112>>}]

\* The filter of a request with no parameter.
EmptyFilter ==
    [SolanaVersion |-> <<>>, Status |-> <<>>, UploadedBy |-> <<>>, Node |-> <<>>,
     SlotRange |-> <<>>, MinSlot |-> 0, MaxSlot |-> 0, StartTime |-> ZeroTime,
     EndTime |-> ZeroTime, SearchTerm |-> <<>>]

\* Whether a sidecar's content gives a record, and the record it gives.
GivesRecord(k) == MapDecodes(ObjDoc(k))
RecordOf(k) == IF StrictDecodes(ObjDoc(k)) THEN StrictRecord(k) ELSE FallbackRecord(k)

\* The same for every key there is, worked out once: whether the key is a
\* sidecar's, and the record its content gives.
IsSidecarTable == [k \in 1..(MaxObjs + 2) |-> isSnapshotMetadataFile(ObjKey(k))]
RecordTable == [k \in 1..(MaxObjs + 2) |-> RecordOf(k)]
IsSidecar(k) == IsSidecarTable[k]
Record(k) == RecordTable[k]

\* matchesFilter applied, as ListMetadata applies it, to the record of the
\* sidecar and the filter that were drawn.
ApplyFilter ==
    /\ http.op = "filter"
    /\ http' = [op |-> "matchesFilter", key |-> http.key, rec |-> Record(http.key),
                filter |-> http.filter,
                matched |-> matchesFilter(Record(http.key), http.filter)]
    /\ UNCHANGED <<bucket, hubState, hubObs, idxState>>

\* respondWithError's body.
ErrorBody == [kind |-> "error"]
\* The object's bytes.
RawBody(k) == [kind |-> "content", of |-> k]

\* The filters of the list requests: no parameter, or one.
ListFilters ==
    {f \in Filters :
        Cardinality({x \in DOMAIN f : f[x] # EmptyFilter[x]}) <= 1}

defaultPageSize == 20
maxPageSize == 100

\* getPaginationParams without the clamp of the page size.
getPaginationParamsUnclamped(pageStr, pageSizeStr) ==
    LET pageInt == ParseInt(pageStr)
        pageSizeInt == ParseInt(pageSizeStr)
    IN  [page |-> IF pageStr # <<>> /\ pageInt.ok /\ ~pageInt.neg /\ pageInt.mag # WideZero
                    THEN pageInt.mag ELSE WideOf(1),
         pageSize |-> IF pageSizeStr # <<>> /\ pageSizeInt.ok /\ ~pageSizeInt.neg
                            /\ pageSizeInt.mag # WideZero
                        THEN Narrow(pageSizeInt.mag)
                        ELSE defaultPageSize]

\* getPaginationParams on the two parameters as sent (the empty string for
\* one that is missing): the page, a positive 64-bit quantity, and the page
\* size.
getPaginationParams(pageStr, pageSizeStr) ==
    LET pageInt == ParseInt(pageStr)
        pageSizeInt == ParseInt(pageSizeStr)
    IN  [page |-> IF pageStr # <<>> /\ pageInt.ok /\ ~pageInt.neg /\ pageInt.mag # WideZero
                    THEN pageInt.mag ELSE WideOf(1),
         pageSize |-> IF pageSizeStr # <<>> /\ pageSizeInt.ok /\ ~pageSizeInt.neg
                            /\ pageSizeInt.mag # WideZero
                        THEN (IF WideLess(WideOf(maxPageSize), pageSizeInt.mag)
                                THEN maxPageSize ELSE Narrow(pageSizeInt.mag))
                        ELSE defaultPageSize]

\* calculatePaginationBounds, its ints 64 bits wide: page is positive,
\* pageSize and totalItems are small.
calculatePaginationBounds(page, pageSize, totalItems) ==
    LET start == Wrap(WideMul(WideSub(page, WideOf(1)), pageSize))
        end == WrapAdd(start, pageSize)
        total == [neg |-> FALSE, mag |-> WideOf(totalItems)]
    IN  IF ~start.neg /\ ~WideLess(start.mag, total.mag) THEN <<IntZero, IntZero>>
        ELSE IF ~end.neg /\ WideLess(total.mag, end.mag) THEN <<start, total>>
        ELSE <<start, end>>

\* The end of ListMetadata: the page of the sorted list and the total, or
\* the panic of a slice expression whose bounds are not 0 <= start <= end.
PageOf(metadataList, pageStr, pageSizeStr) ==
    LET totalCount == Len(metadataList)
        pp == getPaginationParams(pageStr, pageSizeStr)
        bounds == calculatePaginationBounds(pp.page, pp.pageSize, totalCount)
        start == bounds[1]
        end == IF ~bounds[2].neg /\ WideLess(WideOf(totalCount), bounds[2].mag)
                 THEN [neg |-> FALSE, mag |-> WideOf(totalCount)] ELSE bounds[2]
    IN  IF start.neg \/ WideLess(start.mag, WideOf(totalCount))
          THEN (IF start.neg \/ end.neg \/ WideLess(end.mag, start.mag)
                  THEN [kind |-> "panic", items |-> <<>>, total |-> totalCount]
                  ELSE [kind |-> "list",
                        items |-> SubSeq(metadataList, Narrow(start.mag) + 1, Narrow(end.mag)),
                        total |-> totalCount])
          ELSE [kind |-> "list", items |-> <<>>, total |-> totalCount]

\* What the server makes of the end of a handler: the response, or, after a
\* panic, the connection closed with nothing sent.
CodeOf(body) == IF body.kind = "panic" THEN 0 ELSE 200

\* The comparison ListMetadata sorts with, slots and timestamps ascending.
LessAscending(a, b) ==
    IF IsZero(a.Timestamp) \/ IsZero(b.Timestamp)
      THEN a.Slot < b.Slot
      ELSE After(b.Timestamp, a.Timestamp)

\* The comparison ListMetadata sorts with.
Less(a, b) ==
    IF IsZero(a.Timestamp) \/ IsZero(b.Timestamp)
      THEN a.Slot > b.Slot
      ELSE After(a.Timestamp, b.Timestamp)

\* Whether Less orders the records of S consistently (a strict weak order).
Consistent(S) ==
    /\ \A a, b \in S : ~(Less(a, b) /\ Less(b, a))
    /\ \A a, b, c \in S : (Less(a, b) /\ Less(b, c)) => Less(a, c)
    /\ \A a, b, c \in S :
          (~Less(a, b) /\ ~Less(b, a) /\ ~Less(b, c) /\ ~Less(c, b))
              => (~Less(a, c) /\ ~Less(c, a))

RECURSIVE Perms(_)
\* The orders the records of S can be put in.
Perms(S) ==
    IF S = {} THEN {<<>>}
    ELSE UNION {{<<x>> \o p : p \in Perms(S \ {x})} : x \in S}

\* sort.Slice, which is not stable: where Less orders the records
\* consistently they come out with none before one that is less than it; where
\* it does not, the order is whatever the algorithm leaves.
SortSlice(S) ==
    IF Consistent(S)
      THEN {p \in Perms(S) : \A i, j \in 1..Len(p) : i < j => ~Less(p[j], p[i])}
      ELSE Perms(S)

\* ListMetadata serving the list request that came in: listed is whether
\* ListObjects answers, failing the sidecars whose fetch or read fails.
ListMetadata(listed, failing) ==
    LET f == http.filter
        metadataFiles == {k \in bucket : IsSidecar(k)}
        metadataList == {Record(k) : k \in {c \in metadataFiles \ failing :
                                GivesRecord(c) /\ matchesFilter(Record(c), f)}}
    IN  /\ http.op = "list"
        /\ failing \subseteq metadataFiles
        /\ IF ~listed
             THEN http' = [op |-> "queryMetadata", filter |-> f, code |-> 500,
                           body |-> ErrorBody]
             ELSE IF metadataFiles = {}
               THEN http' = [op |-> "queryMetadata", filter |-> f, code |-> 200,
                             body |-> [kind |-> "list", items |-> <<>>, total |-> 0]]
             ELSE \E sorted \in SortSlice(metadataList) :
                    LET body == PageOf(sorted, http.page, http.pageSize)
                    IN  http' = [op |-> "queryMetadata", filter |-> f,
                                 code |-> CodeOf(body), body |-> body]
        /\ UNCHANGED <<bucket, hubState, hubObs, idxState>>

\* The values of page and of page_size a request may carry.
PageParams ==
    {<<>>, <<97, 98, 99>>, <<48>>, <<45, 49>>, <<49>>, <<50>>, <<51>>, <<49, 48>>, <<57, 50, 50, 51, 51, 55, 50, 48, 51, 54, 56, 53, 52, 55, 55, 54, 48>>, <<57, 57, 57, 57, 57, 57, 57, 57, 57, 57, 57, 57, 57, 57, 57, 57, 57, 57, 57, 57>>}
SizeParams ==
    {<<>>, <<120>>, <<48>>, <<45, 53>>, <<49>>, <<50>>, <<55>>, <<50, 48>>, <<49, 48, 48>>, <<49, 48, 49>>, <<57, 57, 57, 57, 57, 57, 57, 57, 57, 57, 57, 57, 57, 57, 57, 57, 57, 57, 57, 57>>}

\* The sorted list of t records, each written as its place in the list.
Ranked(t) == [i \in 1..t |-> i]

\* The end of ListMetadata on the request drawn and a sorted list of
\* http.total matching records.
ServePage ==
    /\ http.op = "page"
    /\ http' = [op |-> "paged", total |-> http.total, page |-> http.page,
                pageSize |-> http.pageSize,
                params |-> getPaginationParams(http.page, http.pageSize),
                out |-> PageOf(Ranked(http.total), http.page, http.pageSize)]
    /\ UNCHANGED <<bucket, hubState, hubObs, idxState>>

\* Keys to classify: a prefix, "snapshot", a delimiter, a slot, a delimiter,
\* a node and a suffix, and a few keys of other shapes.
KeyStrings ==
    {pre \o <<115, 110, 97, 112, 115, 104, 111, 116>> \o d1 \o slot \o d2 \o node \o suf :
        pre \in {<<>>, <<120>>, <<100, 105, 114, 47>>},
        d1 \in {<<45>>, <<95>>},
        slot \in {<<>>, <<48>>, <<55>>, <<48, 48, 55>>, <<49, 50, 51, 52, 53, 54, 55, 56, 57>>, <<57, 50, 50, 51, 51, 55, 50, 48, 51, 54, 56, 53, 52, 55, 55, 53, 56, 48, 56>>, <<57, 57, 57, 57, 57, 57, 57, 57, 57, 57, 57, 57, 57, 57, 57, 57, 57, 57, 57, 57>>, <<49, 50, 97>>},
        d2 \in {<<45>>, <<95>>},
        node \in {<<>>, <<65>>, <<97, 66, 51>>, <<97, 45, 98>>, <<115, 110, 97, 112, 115, 104, 111, 116>>},
        suf \in {<<46, 106, 115, 111, 110>>, <<46, 116, 97, 114, 46, 103, 122>>, <<46, 106, 115, 111, 110, 46, 98, 97, 107>>, <<120, 106, 115, 111, 110>>, <<46, 74, 83, 79, 78>>}}
      \cup {<<109, 101, 116, 97, 100, 97, 116, 97, 46, 106, 115, 111, 110>>, <<115, 110, 97, 112, 115, 104, 111, 116, 45, 49, 45, 115, 110, 97, 112, 115, 104, 111, 116, 45, 50, 45, 66, 46, 106, 115, 111, 110>>, <<115, 110, 97, 112, 115, 104, 111, 116, 45, 49, 45, 65, 46, 106, 115, 111, 110, 10>>, <<>>}

\* isSnapshotMetadataFile and extractSlotAndNode applied to the key drawn.
ClassifyKey ==
    /\ http.op = "key"
    /\ http' = [op |-> "classified", key |-> http.key,
                sidecar |-> isSnapshotMetadataFile(http.key),
                slotNode |-> extractSlotAndNode(http.key)]
    /\ UNCHANGED <<bucket, hubState, hubObs, idxState>>

\* The keys a request may name: 0 is the empty key, MaxObjs + 2 an archive.
Requested == 1..(MaxObjs + 2)
ReqKey(k) == IF k = 0 THEN <<>> ELSE ObjKey(k)

\* Service.GetObject's outcomes: the storage answers or fails, and for a
\* key that is not in the bucket it always fails.
Possible(k, io) == io = "fetchErr" \/ k \in bucket

Reply(op, k, fetched, got, code, body) ==
    [op |-> op, key |-> k, fetched |-> fetched, got |-> got, code |-> code,
     body |-> body]

\* GetFile fetching whatever is named.
GetFileAnyKey(k, io) ==
    /\ Possible(k, io)
    /\ http' = IF io = "fetchErr"
                 THEN Reply("getObject", k, TRUE, FALSE, 500, ErrorBody)
               ELSE IF io = "copyErr"
                 THEN Reply("getObject", k, TRUE, TRUE, 500, ErrorBody)
               ELSE Reply("getObject", k, TRUE, TRUE, 200, RawBody(k))
    /\ UNCHANGED <<bucket, hubState, hubObs, idxState>>

\* GetFile for key k: io is what the storage and the connection do
\* ("copyErr": io.Copy fails before a byte is written; "copyPart": after,
\* when the status line has gone out).
GetFile(k, io) ==
    /\ Possible(k, io)
    /\ http' = IF IsTarGzFile(ReqKey(k))
                 THEN Reply("getObject", k, FALSE, FALSE, 403, ErrorBody)
               ELSE IF io = "fetchErr"
                 THEN Reply("getObject", k, TRUE, FALSE, 500, ErrorBody)
               ELSE IF io = "copyErr"
                 THEN Reply("getObject", k, TRUE, TRUE, 500, ErrorBody)
               ELSE Reply("getObject", k, TRUE, TRUE, 200, RawBody(k))
    /\ UNCHANGED <<bucket, hubState, hubObs, idxState>>

\* GetMetadata's reply once the object was fetched: read is whether
\* io.ReadAll gave the whole body.
ReadReply(k, read, code, body) ==
    [op |-> "getMetadataRecord", key |-> k, fetched |-> TRUE, got |-> TRUE,
     read |-> read, code |-> code, body |-> body]

\* GetMetadata answering with an error to content the strict decode rejects.
GetMetadataStrictOnly(k, io) ==
    /\ Possible(k, io)
    /\ http' = IF ReqKey(k) = <<>>
                 THEN Reply("getMetadataRecord", k, FALSE, FALSE, 400, ErrorBody)
               ELSE IF io = "fetchErr"
                 THEN Reply("getMetadataRecord", k, TRUE, FALSE, 404, ErrorBody)
               ELSE IF io = "readErr"
                 THEN ReadReply(k, FALSE, 500, ErrorBody)
               ELSE IF ~HasSuffix(ReqKey(k), StrDotJson)
                 THEN ReadReply(k, TRUE, 200, RawBody(k))
               ELSE IF StrictDecodes(ObjDoc(k))
                 THEN ReadReply(k, TRUE, 200, [kind |-> "record", rec |-> StrictRecord(k)])
               ELSE ReadReply(k, TRUE, 500, ErrorBody)
    /\ UNCHANGED <<bucket, hubState, hubObs, idxState>>

\* GetMetadata for key k ("readErr": io.ReadAll fails).
GetMetadata(k, io) ==
    /\ Possible(k, io)
    /\ http' = IF ReqKey(k) = <<>>
                 THEN Reply("getMetadataRecord", k, FALSE, FALSE, 400, ErrorBody)
               ELSE IF io = "fetchErr"
                 THEN Reply("getMetadataRecord", k, TRUE, FALSE, 404, ErrorBody)
               ELSE IF io = "readErr"
                 THEN ReadReply(k, FALSE, 500, ErrorBody)
               ELSE IF ~HasSuffix(ReqKey(k), StrDotJson)
                 THEN ReadReply(k, TRUE, 200, RawBody(k))
               ELSE IF StrictDecodes(ObjDoc(k))
                 THEN ReadReply(k, TRUE, 200, [kind |-> "record", rec |-> StrictRecord(k)])
               ELSE IF MapDecodes(ObjDoc(k))
                 THEN ReadReply(k, TRUE, 200, [kind |-> "record", rec |-> FallbackRecord(k)])
               ELSE ReadReply(k, TRUE, 200, RawBody(k))
    /\ UNCHANGED <<bucket, hubState, hubObs, idxState>>

\* The versions the sidecars may state: the three of the documented example,
\* others of one and two digits, one with a leading zero, one of two
\* components and one whose major component is beyond int64.
VersionPool ==
    {<<49, 46, 49, 48, 46, 48>>,
     <<49, 46, 57, 46, 48>>,
     <<49, 46, 50, 46, 48>>,
     <<50, 46, 48, 46, 48>>,
     <<49, 46, 50, 46, 49, 48>>,
     <<49, 46, 48, 50, 46, 48>>,
     <<49, 48, 46, 48, 46, 49>>,
     <<48, 46, 57, 46, 57>>,
     <<49, 46, 57>>,
     <<57, 57, 57, 57, 57, 57, 57, 57, 57, 57, 57, 57, 57, 57, 57, 57, 57, 57, 57, 57, 46, 48, 46, 48>>}

\* Whether VersionLess orders the versions of S consistently.
VersionsConsistent(S) ==
    /\ \A a, b \in S : ~(VersionLess(a, b) /\ VersionLess(b, a))
    /\ \A a, b, c \in S : (VersionLess(a, b) /\ VersionLess(b, c)) => VersionLess(a, c)
    /\ \A a, b, c \in S :
          (~VersionLess(a, b) /\ ~VersionLess(b, a) /\ ~VersionLess(b, c) /\ ~VersionLess(c, b))
              => (~VersionLess(a, c) /\ ~VersionLess(c, a))

\* sort.Slice on versionsList, filled from the map in any order: as for
\* SortSlice.
SortVersions(S) ==
    IF VersionsConsistent(S)
      THEN {p \in Perms(S) : \A i, j \in 1..Len(p) : i < j => ~VersionLess(p[j], p[i])}
      ELSE Perms(S)

\* indexMetadata turning the versions map that was drawn into the facet.
SortVersionSet ==
    /\ http.op = "versions"
    /\ \E list \in SortVersions(http.set) :
          http' = [op |-> "versionsFacet", set |-> http.set, list |-> list]
    /\ UNCHANGED <<bucket, hubState, hubObs, idxState>>

\* The largest page of keys the storage backend answers with.
MaxPageKeys == 4

\* ListObjects on the bucket and the backend's page that were drawn.
ListBucket ==
    /\ http.op = "listing"
    /\ http' = [op |-> "listed", pageKeys |-> http.pageKeys,
                objects |-> ListObjectsPaged(bucket, http.pageKeys)]
    /\ UNCHANGED <<bucket, hubState, hubObs, idxState>>

\* The bound on the sidecars whose slots fill the slot ranges map.
MaxSlots == 3

\* The slots of the sidecars a pass may meet: the first and the last of the
\* windows 0, 1, 2, 3, 9, 10, 11 and 100 (0 is no slot of a sidecar), a
\* ten-digit one, and the last of the last full window of int64 with the
\* largest of int64.
SlotPool ==
    {Int64Of(k * rangeSize + off) :
        k \in {0, 1, 2, 3, 9, 10, 11, 100}, off \in {0, rangeSize - 1}}
        \cup {[neg |-> FALSE, mag |-> x] :
                x \in {<<543210, 9876, 0, 0>>, <<999999, 36853, 223372, 9>>,
                       <<775807, 36854, 223372, 9>>}}

\* The keys of the slotRanges map after the workers met sidecars of the
\* slots S: a sidecar whose slot is 0 adds none.
SlotRangesOf(S) == {getSlotRange64(s) : s \in {t \in S : t # IntZero}}

\* Whether SlotRangeLess orders the distinct labels of L consistently (the
\* sort never compares an element with itself).
SlotRangesConsistent(L) ==
    /\ \A a, b \in L : a # b => ~(SlotRangeLess(a, b) /\ SlotRangeLess(b, a))
    /\ \A a, b, c \in L :
          (a # b /\ b # c /\ a # c /\ SlotRangeLess(a, b) /\ SlotRangeLess(b, c))
              => SlotRangeLess(a, c)
    /\ \A a, b, c \in L :
          (a # b /\ b # c /\ a # c
             /\ ~SlotRangeLess(a, b) /\ ~SlotRangeLess(b, a)
             /\ ~SlotRangeLess(b, c) /\ ~SlotRangeLess(c, b))
              => (~SlotRangeLess(a, c) /\ ~SlotRangeLess(c, a))

\* sort.Slice on slotRangesList, filled from the map in any order: as for
\* SortSlice.
SortSlotRanges(L) ==
    IF SlotRangesConsistent(L)
      THEN {p \in Perms(L) : \A i, j \in 1..Len(p) : i < j => ~SlotRangeLess(p[j], p[i])}
      ELSE Perms(L)

\* indexMetadata turning the slots of the sidecars that were drawn into
\* the slot ranges facet.
SortSlotRangeSet ==
    /\ http.op = "slots"
    /\ \E list \in SortSlotRanges(SlotRangesOf(http.set)) :
          http' = [op |-> "slotRangesFacet", set |-> http.set, list |-> list]
    /\ UNCHANGED <<bucket, hubState, hubObs, idxState>>

\* The slots getSlotRange is applied to: the first two and the last of
\* each window, two negative ones, a ten-digit one, and the largest of
\* int64 with the two around the start of its window.
SlotInputs ==
    {Int64Of(k * rangeSize + off) : k \in 0..MaxMillions, off \in {0, 1, rangeSize - 1}}
        \cup {Int64Of(0 - 5), Int64Of(0 - 1500000)}
        \cup {[neg |-> FALSE, mag |-> x] :
                x \in {<<543210, 9876, 0, 0>>, <<999999, 36853, 223372, 9>>,
                       <<0, 36854, 223372, 9>>, <<775807, 36854, 223372, 9>>}}

\* getSlotRange applied to the slot that was drawn.
ApplySlotRange ==
    /\ http.op = "slot"
    /\ http' = [op |-> "slotRange", slot |-> http.slot, label |-> getSlotRange64(http.slot)]
    /\ UNCHANGED <<bucket, hubState, hubObs, idxState>>

\* No request served yet.
NoRequest == [op |-> "none"]

IdxAtRest ==
    /\ filterOptions = EmptyFacets
    /\ pass = [p \in Passes |-> PassAt("idle")]
    /\ rdPc = "idle"
    /\ options = [live |-> FALSE, val |-> EmptyFacets]
    /\ rdRead = <<>>
    /\ http = NoRequest

HubInit ==
    /\ clients = {}
    /\ queue = [c \in Clients |-> <<>>]
    /\ closed = [c \in Clients |-> FALSE]
    /\ hubPc = "select"
    /\ hubCl = NoClient
    /\ mutex = "free"
    /\ lastFiles = <<>>
    /\ pollPc = "wait"
    /\ objects = <<>>
    /\ srv = [c \in Clients |-> "idle"]
    /\ rp = [c \in Clients |-> "off"]
    /\ wp = [c \in Clients |-> "off"]
    /\ ctxDone = FALSE
    /\ owed = [c \in Clients |-> {}]
    /\ polled = "stale"
    /\ sent = [c \in Clients |-> <<>>]

\* The hub on its own: an empty bucket, no cache service and no indexing.
Init ==
    /\ bucket = {}
    /\ HubInit
    /\ cacheService = FALSE
    /\ cache = <<>>
    /\ IdxAtRest

\* The indexer, one pass at a time: main built the handler with or without a cache service, the
\* cache has the key or not, the bucket holds what was uploaded before, and
\* NewHandler has started the first pass.
IdxInit ==
    /\ bucket \in SUBSET Keys
    /\ HubInit
    /\ cacheService \in BOOLEAN
    /\ cache \in (IF cacheService THEN {<<>>, <<CachedOptions>>} ELSE {<<>>})
    /\ filterOptions = EmptyFacets
    /\ pass = [p \in Passes |-> IF p = "startup" THEN PassAt("start") ELSE PassAt("off")]
    /\ rdPc = "idle"
    /\ options = [live |-> FALSE, val |-> EmptyFacets]
    /\ rdRead = <<>>
    /\ http = NoRequest

\* The endpoints on objects and records over a bucket of any of the
\* catalogue's objects and an archive, the indexer left out.
HttpInit ==
    /\ bucket \in SUBSET Requested
    /\ HubInit
    /\ cacheService = FALSE
    /\ cache = <<>>
    /\ IdxAtRest

\* The list endpoint over a bucket of any of the catalogue's objects, with a
\* request that came in: its filter, and page and page_size as sent.
QueryInit ==
    /\ bucket \in SUBSET Catalogue
    /\ HubInit
    /\ cacheService = FALSE
    /\ cache = <<>>
    /\ filterOptions = EmptyFacets
    /\ pass = [p \in Passes |-> PassAt("idle")]
    /\ rdPc = "idle"
    /\ options = [live |-> FALSE, val |-> EmptyFacets]
    /\ rdRead = <<>>
    /\ http \in [op : {"list"}, filter : ListFilters,
                 page : {<<>>, <<49>>, <<50>>},
                 pageSize : {<<>>, <<50>>, <<49, 48, 49>>}]

\* The pagination of a list request: the two parameters as sent and the
\* number of records that match.
PageInit ==
    /\ bucket = {}
    /\ HubInit
    /\ cacheService = FALSE
    /\ cache = <<>>
    /\ filterOptions = EmptyFacets
    /\ pass = [p \in Passes |-> PassAt("idle")]
    /\ rdPc = "idle"
    /\ options = [live |-> FALSE, val |-> EmptyFacets]
    /\ rdRead = <<>>
    /\ http \in [op : {"page"}, total : 0..MaxTotal, page : PageParams,
                 pageSize : SizeParams]

\* The classification of a key.
VersionInit ==
    /\ bucket = {}
    /\ HubInit
    /\ cacheService = FALSE
    /\ cache = <<>>
    /\ filterOptions = EmptyFacets
    /\ pass = [p \in Passes |-> PassAt("idle")]
    /\ rdPc = "idle"
    /\ options = [live |-> FALSE, val |-> EmptyFacets]
    /\ rdRead = <<>>
    /\ http \in [op : {"versions"},
                 set : {S \in SUBSET VersionPool : Cardinality(S) <= MaxVersions}]

\* A bucket of some objects of the catalogue and a backend whose page
\* holds pageKeys keys.
ListInit ==
    /\ bucket \in SUBSET (1..(MaxObjs + 2))
    /\ HubInit
    /\ cacheService = FALSE
    /\ cache = <<>>
    /\ filterOptions = EmptyFacets
    /\ pass = [p \in Passes |-> PassAt("idle")]
    /\ rdPc = "idle"
    /\ options = [live |-> FALSE, val |-> EmptyFacets]
    /\ rdRead = <<>>
    /\ http \in [op : {"listing"}, pageKeys : 1..MaxPageKeys]

RECURSIVE AccAll(_, _)
\* The five maps once the workers have taken every file of the pass, each
\* file's content fetched and read.
AccAll(acc, files) ==
    IF files = {} THEN acc
    ELSE LET k == CHOOSE x \in files : TRUE
         IN  AccAll(AccDoc(AccKey(acc, k), k), files \ {k})

\* The facets, and for each the filter field its values are sent back as.
FacetFields ==
    {<<"SolanaVersions", "SolanaVersion">>, <<"Statuses", "Status">>,
     <<"UploadedBy", "UploadedBy">>, <<"Nodes", "Node">>, <<"SlotRanges", "SlotRange">>}

\* The values the objects there are can put in a facet.
FacetValues ==
    MapValues("solana_version") \cup MapValues("status") \cup MapValues("uploaded_by")
        \cup {SlotAndNodeTable[k][2] : k \in NamedKeys}
        \cup {SlotRangeTable[k] : k \in NamedKeys}

\* indexMetadata and then ListMetadata over the same bucket, every fetch
\* succeeding, the list request carrying the drawn value as its only
\* parameter: whether the facet lists the value, the files each of the two
\* takes from its listing, and the keys of the records that match.
QueryFacetValue ==
    LET objs == ListObjects(bucket)
        indexed == MetadataFiles(objs)
        facets == FacetsOf(AccAll(EmptyAcc, indexed))
        f == [EmptyFilter EXCEPT ![http.field[2]] = http.value]
        metadataFiles == {k \in Range(objs) : IsSidecar(k)}
        matching == {k \in metadataFiles : GivesRecord(k) /\ matchesFilter(Record(k), f)}
    IN  /\ http.op = "facet"
        /\ http' = [op |-> "facetQuery", field |-> http.field, value |-> http.value,
                    listed |-> http.value \in Range(facets[http.field[1]]),
                    indexed |-> indexed, metadataFiles |-> metadataFiles,
                    matching |-> matching]
        /\ UNCHANGED <<bucket, hubState, hubObs, idxState>>

AgreeInit ==
    /\ bucket \in SUBSET (1..(MaxObjs + 2))
    /\ HubInit
    /\ cacheService = FALSE
    /\ cache = <<>>
    /\ filterOptions = EmptyFacets
    /\ pass = [p \in Passes |-> PassAt("idle")]
    /\ rdPc = "idle"
    /\ options = [live |-> FALSE, val |-> EmptyFacets]
    /\ rdRead = <<>>
    /\ http \in [op : {"facet"}, field : FacetFields, value : FacetValues]

SlotFacetInit ==
    /\ bucket = {}
    /\ HubInit
    /\ cacheService = FALSE
    /\ cache = <<>>
    /\ filterOptions = EmptyFacets
    /\ pass = [p \in Passes |-> PassAt("idle")]
    /\ rdPc = "idle"
    /\ options = [live |-> FALSE, val |-> EmptyFacets]
    /\ rdRead = <<>>
    /\ http \in [op : {"slots"},
                 set : {S \in SUBSET SlotPool : Cardinality(S) <= MaxSlots}]

SlotInit ==
    /\ bucket = Requested
    /\ HubInit
    /\ cacheService = FALSE
    /\ cache = <<>>
    /\ filterOptions = EmptyFacets
    /\ pass = [p \in Passes |-> PassAt("idle")]
    /\ rdPc = "idle"
    /\ options = [live |-> FALSE, val |-> EmptyFacets]
    /\ rdRead = <<>>
    /\ http \in [op : {"slot"}, slot : SlotInputs]

KeyInit ==
    /\ bucket = {}
    /\ HubInit
    /\ cacheService = FALSE
    /\ cache = <<>>
    /\ filterOptions = EmptyFacets
    /\ pass = [p \in Passes |-> PassAt("idle")]
    /\ rdPc = "idle"
    /\ options = [live |-> FALSE, val |-> EmptyFacets]
    /\ rdRead = <<>>
    /\ http \in [op : {"key"}, key : KeyStrings]

\* The indexer scanning a bucket of any of the catalogue's objects, with no
\* cache service.
ScanInit ==
    /\ bucket \in SUBSET Catalogue
    /\ HubInit
    /\ cacheService = FALSE
    /\ cache = <<>>
    /\ filterOptions = EmptyFacets
    /\ pass = [p \in Passes |-> IF p = "startup" THEN PassAt("start") ELSE PassAt("off")]
    /\ rdPc = "idle"
    /\ options = [live |-> FALSE, val |-> EmptyFacets]
    /\ rdRead = <<>>
    /\ http = NoRequest

\* The pool at work in one pass at a time over a bucket of the first
\* objects of the catalogue, with no cache service.
WorkInit ==
    /\ bucket \in {1..n : n \in 0..MaxObjs}
    /\ HubInit
    /\ cacheService = FALSE
    /\ cache = <<>>
    /\ filterOptions = EmptyFacets
    /\ pass = [p \in Passes |-> IF p = "startup" THEN PassAt("start") ELSE PassAt("off")]
    /\ rdPc = "idle"
    /\ options = [live |-> FALSE, val |-> EmptyFacets]
    /\ rdRead = <<>>
    /\ http = NoRequest

\* Two passes and their pools over a bucket of the first objects of the
\* catalogue, with no cache service.
PoolInit ==
    /\ bucket \in {1..n : n \in 0..MaxObjs}
    /\ HubInit
    /\ cacheService = FALSE
    /\ cache = <<>>
    /\ filterOptions = EmptyFacets
    /\ pass = [p \in Passes |-> IF p = "startup" THEN PassAt("start") ELSE PassAt("idle")]
    /\ rdPc = "idle"
    /\ options = [live |-> FALSE, val |-> EmptyFacets]
    /\ rdRead = <<>>
    /\ http = NoRequest

\* The indexer with two passes at once: the one NewHandler starts and one
\* more that a reindex or a getFacets request starts.
ConcInit ==
    /\ bucket \in SUBSET Keys
    /\ HubInit
    /\ cacheService \in BOOLEAN
    /\ cache \in (IF cacheService THEN {<<>>, <<CachedOptions>>} ELSE {<<>>})
    /\ filterOptions = EmptyFacets
    /\ pass = [p \in Passes |-> IF p = "startup" THEN PassAt("start") ELSE PassAt("idle")]
    /\ rdPc = "idle"
    /\ options = [live |-> FALSE, val |-> EmptyFacets]
    /\ rdRead = <<>>
    /\ http = NoRequest

\* ------------------------------------------------- observing the hub

\* The keys of the listing enqueued to c in this step, if one was.
Enqueued(c) ==
    IF Len(queue'[c]) > Len(queue[c]) THEN KeysIn(<<queue'[c][Len(queue'[c])]>>) ELSE {}

\* The history variables follow the step: owed[c] gains a key put in the
\* bucket while c is registered and loses it when the key is deleted or a
\* listing holding it is enqueued to c; polled tells whether a whole
\* iteration of the poller has run on the bucket as it is now.
Observe ==
    /\ owed' = [c \in Clients |->
                  ((owed[c] \cup (IF c \in clients THEN bucket' \ bucket ELSE {}))
                      \ (bucket \ bucket')) \ Enqueued(c)]
    /\ polled' = IF bucket' # bucket THEN "stale"
                 ELSE IF pollPc = "wait" /\ pollPc' = "lock"
                        THEN (IF polled = "stale" THEN "listed" ELSE polled)
                 ELSE IF pollPc # "wait" /\ pollPc' = "wait"
                        THEN (IF polled = "listed" THEN "done" ELSE polled)
                 ELSE polled
    /\ UNCHANGED <<sent, idxState, http>>

\* The history variable sent follows the step: it gains the count of the
\* listing enqueued to c in it, if one was.
Track ==
    /\ sent' = [c \in Clients |->
                  IF Len(queue'[c]) > Len(queue[c])
                    THEN Append(sent[c], Len(Unmarshal(queue'[c][Len(queue'[c])])))
                    ELSE sent[c]]
    /\ UNCHANGED <<owed, polled, idxState, http>>

\* In HubSpec the history variables are not kept (and, as in HubObsSpec, the
\* indexer is left out).
Unobserved == UNCHANGED <<hubObs, idxState, http>>

HubNext ==
    \/ \E k \in Keys : BucketPut(k) /\ Unobserved
    \/ \E k \in Keys : BucketDelete(k) /\ Unobserved
    \/ \E c \in Clients : ServeWs(c) /\ Unobserved
    \/ \E c \in Clients : HubRegister(c) /\ Unobserved
    \/ HubGreet /\ Unobserved
    \/ \E c \in Clients : HubUnregister(c) /\ Unobserved
    \/ HubBroadcast /\ Unobserved
    \/ PollList /\ Unobserved
    \/ PollListError /\ Unobserved
    \/ PollCompare /\ Unobserved
    \/ PollUpdate /\ Unobserved
    \/ \E c \in Clients : ReadError(c) /\ Unobserved
    \/ \E c \in Clients, ok \in BOOLEAN : WriteMessage(c, ok) /\ Unobserved
    \/ \E c \in Clients : WriteStop(c) /\ Unobserved

HubSpec == Init /\ [][HubNext]_vars

\* What the scheduler and the library see to: the control loop takes a case
\* that is ready, the poller goes on once it has listed, a pump takes a
\* message that is queued, writePump sees the closed queue, and
\* ReadMessage fails once writePump has closed the connection.
HubFairness ==
    /\ WF_vars(\E c \in Clients : HubRegister(c) /\ Unobserved)
    /\ WF_vars(HubGreet /\ Unobserved)
    /\ \A c \in Clients : WF_vars(HubUnregister(c) /\ Unobserved)
    /\ WF_vars(HubBroadcast /\ Unobserved)
    /\ WF_vars(PollCompare /\ Unobserved)
    /\ WF_vars(PollUpdate /\ Unobserved)
    /\ \A c \in Clients :
          WF_vars(\E ok \in BOOLEAN : WriteMessage(c, ok) /\ Unobserved)
    /\ \A c \in Clients : WF_vars(closed[c] /\ WriteStop(c) /\ Unobserved)
    /\ \A c \in Clients : WF_vars(wp[c] = "done" /\ ReadError(c) /\ Unobserved)

HubLiveSpec == Init /\ [][HubNext]_vars /\ HubFairness

\* The hub whose context may be cancelled.
HubStopNext ==
    \/ HubNext
    \/ Cancel /\ Unobserved
    \/ HubReturn /\ Unobserved
    \/ PollReturn /\ Unobserved

\* Besides HubFairness: a select whose ctx.Done() case is ready again and
\* again takes it in the end.
HubStopFairness ==
    /\ HubFairness
    /\ SF_vars(HubReturn /\ Unobserved)
    /\ SF_vars(PollReturn /\ Unobserved)

HubStopSpec == Init /\ [][HubStopNext]_vars /\ HubStopFairness

\* The hub with the history variables kept.
HubObsNext ==
    \/ \E k \in Keys : BucketPut(k) /\ Observe
    \/ \E k \in Keys : BucketDelete(k) /\ Observe
    \/ \E c \in Clients : ServeWs(c) /\ Observe
    \/ \E c \in Clients : HubRegister(c) /\ Observe
    \/ HubGreet /\ Observe
    \/ \E c \in Clients : HubUnregister(c) /\ Observe
    \/ HubBroadcast /\ Observe
    \/ PollList /\ Observe
    \/ PollListError /\ Observe
    \/ PollCompare /\ Observe
    \/ PollUpdate /\ Observe
    \/ \E c \in Clients : ReadError(c) /\ Observe
    \/ \E c \in Clients, ok \in BOOLEAN : WriteMessage(c, ok) /\ Observe
    \/ \E c \in Clients : WriteStop(c) /\ Observe

HubObsSpec == Init /\ [][HubObsNext]_vars

\* The hub with the counts of the listings enqueued to each client kept,
\* and connections that stay up: no read and no write fails, so no client
\* unregisters (a client that did is sent nothing more, and never comes
\* back); a client whose pump is slow is still evicted by a broadcast.
HubSentNext ==
    \/ \E k \in Keys : BucketPut(k) /\ Track
    \/ \E k \in Keys : BucketDelete(k) /\ Track
    \/ \E c \in Clients : ServeWs(c) /\ Track
    \/ \E c \in Clients : HubRegister(c) /\ Track
    \/ HubGreet /\ Track
    \/ HubBroadcast /\ Track
    \/ PollList /\ Track
    \/ PollListError /\ Track
    \/ PollCompare /\ Track
    \/ PollUpdate /\ Track
    \/ \E c \in Clients : WriteMessage(c, TRUE) /\ Track
    \/ \E c \in Clients : WriteStop(c) /\ Track

HubSentSpec == Init /\ [][HubSentNext]_vars

\* The hub is left out of IdxSpec.
HubAtRest == UNCHANGED <<hubState, hubObs, http>>

IdxNext ==
    \/ \E k \in Keys : BucketPut(k) /\ UNCHANGED <<hubObs, idxState, http>>
    \/ \E k \in Keys : BucketDelete(k) /\ UNCHANGED <<hubObs, idxState, http>>
    \/ \E p \in Passes, ok \in BOOLEAN : PassCacheGet(p, ok) /\ HubAtRest
    \/ \E p \in Passes : PassAdopt(p) /\ HubAtRest
    \/ \E p \in Passes : PassList(p) /\ HubAtRest
    \/ \E p \in Passes : PassEmpty(p) /\ HubAtRest
    \/ \E p \in Passes : PassListError(p) /\ HubAtRest
    \/ \E p \in Passes, k \in Keys, ok \in BOOLEAN : WorkerProcess(p, k, ok) /\ HubAtRest
    \/ \E p \in Passes : PassFinish(p) /\ HubAtRest
    \/ \E ok \in BOOLEAN : DebugReindex(ok) /\ HubAtRest
    \/ CacheExpire /\ HubAtRest

IdxSpec == IdxInit /\ [][IdxNext]_vars

\* The passes and the reindex endpoint over a bucket that stays as it is.
ScanNext ==
    \/ \E p \in Passes, ok \in BOOLEAN : PassCacheGet(p, ok) /\ HubAtRest
    \/ \E p \in Passes : PassList(p) /\ HubAtRest
    \/ \E p \in Passes : PassEmpty(p) /\ HubAtRest
    \/ \E p \in Passes : PassListError(p) /\ HubAtRest
    \/ \E p \in Passes, k \in Catalogue, ok \in BOOLEAN : WorkerProcess(p, k, ok) /\ HubAtRest
    \/ \E p \in Passes : PassFinish(p) /\ HubAtRest
    \/ \E ok \in BOOLEAN : DebugReindex(ok) /\ HubAtRest

ScanSpec == ScanInit /\ [][ScanNext]_vars

\* Concurrent passes over a bucket that stays as it is.
ConcNext ==
    \/ \E p \in Passes, ok \in BOOLEAN : PassCacheGet(p, ok) /\ HubAtRest
    \/ \E p \in Passes : PassAdopt(p) /\ HubAtRest
    \/ \E p \in Passes : PassList(p) /\ HubAtRest
    \/ \E p \in Passes : PassEmpty(p) /\ HubAtRest
    \/ \E p \in Passes : PassListError(p) /\ HubAtRest
    \/ \E p \in Passes, k \in Keys, ok \in BOOLEAN : WorkerProcess(p, k, ok) /\ HubAtRest
    \/ \E p \in Passes : PassFinish(p) /\ HubAtRest
    \/ \E ok \in BOOLEAN : DebugReindex(ok) /\ HubAtRest

ConcSpec == ConcInit /\ [][ConcNext]_vars

\* The passes, the reindex endpoint and a getFacets request at a time over a
\* bucket that stays as it is and a storage that answers; the cache may be
\* absent, miss, or fail.
MissNext ==
    \/ \E p \in Passes, ok \in BOOLEAN : PassCacheGet(p, ok) /\ HubAtRest
    \/ \E p \in Passes : PassAdopt(p) /\ HubAtRest
    \/ \E p \in Passes : PassList(p) /\ HubAtRest
    \/ \E p \in Passes : PassEmpty(p) /\ HubAtRest
    \/ \E p \in Passes, k \in Keys : WorkerProcess(p, k, TRUE) /\ HubAtRest
    \/ \E p \in Passes : PassFinish(p) /\ HubAtRest
    \/ \E ok \in BOOLEAN : DebugReindex(ok) /\ HubAtRest
    \/ CacheExpire /\ HubAtRest
    \/ ReaderSnapshot /\ HubAtRest
    \/ \E ok \in BOOLEAN : ReaderResolve(ok) /\ HubAtRest
    \/ ReaderEncode /\ HubAtRest

MissSpec == IdxInit /\ [][MissNext]_vars

\* Requests to the endpoints on objects and records, one at a time.
HttpNext ==
    \/ \E k \in Requested, io \in {"ok", "fetchErr", "copyErr", "copyPart"} : GetFile(k, io)
    \/ \E k \in {0} \cup Requested, io \in {"ok", "fetchErr", "readErr"} : GetMetadata(k, io)

HttpSpec == HttpInit /\ [][HttpNext]_vars

\* matchesFilter on the record of one of the catalogue's sidecars and one
\* of the filters.
MatchInit ==
    /\ bucket = Catalogue
    /\ HubInit
    /\ cacheService = FALSE
    /\ cache = <<>>
    /\ filterOptions = EmptyFacets
    /\ pass = [p \in Passes |-> PassAt("idle")]
    /\ rdPc = "idle"
    /\ options = [live |-> FALSE, val |-> EmptyFacets]
    /\ rdRead = <<>>
    /\ http \in [op : {"filter"},
                 key : {k \in Catalogue : IsSidecar(k) /\ GivesRecord(k)},
                 filter : Filters]

MatchNext == ApplyFilter

MatchSpec == MatchInit /\ [][MatchNext]_vars

\* The list request served.
QueryNext ==
    \E listed \in BOOLEAN, failing \in SUBSET bucket : ListMetadata(listed, failing)

QuerySpec == QueryInit /\ [][QueryNext]_vars

PageNext == ServePage

PageSpec == PageInit /\ [][PageNext]_vars

KeyNext == ClassifyKey

KeySpec == KeyInit /\ [][KeyNext]_vars

\* A pass at a time with its workers' fetches in flight.
WorkNext ==
    \/ \E p \in Passes : PassCacheGet(p, FALSE) /\ HubAtRest
    \/ \E p \in Passes : PassList(p) /\ HubAtRest
    \/ \E p \in Passes : PassEmpty(p) /\ HubAtRest
    \/ \E p \in Passes : PassListError(p) /\ HubAtRest
    \/ \E p \in Passes, k \in Catalogue : WorkerTake(p, k) /\ HubAtRest
    \/ \E p \in Passes, k \in Catalogue, ok \in BOOLEAN : WorkerDone(p, k, ok) /\ HubAtRest
    \/ \E p \in Passes : PassFinish(p) /\ HubAtRest
    \/ DebugReindex(TRUE) /\ HubAtRest

\* The scheduler runs a worker that can receive and the pass once its
\* workers are done, and every storage call returns.
WorkFairness ==
    /\ \A p \in Passes : WF_vars(\E k \in Catalogue : WorkerTake(p, k) /\ HubAtRest)
    /\ \A p \in Passes :
          WF_vars(\E k \in Catalogue, ok \in BOOLEAN : WorkerDone(p, k, ok) /\ HubAtRest)
    /\ \A p \in Passes : WF_vars(PassFinish(p) /\ HubAtRest)

WorkLiveSpec == WorkInit /\ [][WorkNext]_vars /\ WorkFairness

\* Two passes at once, each with its workers' fetches in flight, over a
\* storage that answers.
PoolNext ==
    \/ \E p \in Passes : PassCacheGet(p, FALSE) /\ HubAtRest
    \/ \E p \in Passes : PassList(p) /\ HubAtRest
    \/ \E p \in Passes : PassEmpty(p) /\ HubAtRest
    \/ \E p \in Passes, k \in Catalogue : WorkerTake(p, k) /\ HubAtRest
    \/ \E p \in Passes, k \in Catalogue : WorkerDone(p, k, TRUE) /\ HubAtRest
    \/ \E p \in Passes : PassFinish(p) /\ HubAtRest
    \/ DebugReindex(TRUE) /\ HubAtRest

PoolSpec == PoolInit /\ [][PoolNext]_vars

\* The versions' sort on a set of versions.
VersionNext == SortVersionSet

VersionSpec == VersionInit /\ [][VersionNext]_vars

\* A listing of the bucket.
ListNext == ListBucket

ListSpec == ListInit /\ [][ListNext]_vars

\* The slot ranges' sort on the labels of a set of slots.
SlotFacetNext == SortSlotRangeSet

SlotFacetSpec == SlotFacetInit /\ [][SlotFacetNext]_vars

\* A facet value sent back as the only parameter of a list request.
AgreeNext == QueryFacetValue

AgreeSpec == AgreeInit /\ [][AgreeNext]_vars

\* getSlotRange on a slot, and the records getMetadataRecord gives for the
\* objects of a full bucket.
SlotNext ==
    \/ ApplySlotRange
    \/ \E k \in Requested, io \in {"ok", "fetchErr", "readErr"} : GetMetadata(k, io)

SlotSpec == SlotInit /\ [][SlotNext]_vars

\* The indexer and a getFacets request at a time, over a bucket that stays
\* as it is.
FacetsNext ==
    \/ \E p \in Passes, ok \in BOOLEAN : PassCacheGet(p, ok) /\ HubAtRest
    \/ \E p \in Passes : PassAdopt(p) /\ HubAtRest
    \/ \E p \in Passes : PassList(p) /\ HubAtRest
    \/ \E p \in Passes : PassEmpty(p) /\ HubAtRest
    \/ \E p \in Passes : PassListError(p) /\ HubAtRest
    \/ \E p \in Passes, k \in Keys, ok \in BOOLEAN : WorkerProcess(p, k, ok) /\ HubAtRest
    \/ \E p \in Passes : PassFinish(p) /\ HubAtRest
    \/ \E ok \in BOOLEAN : DebugReindex(ok) /\ HubAtRest
    \/ CacheExpire /\ HubAtRest
    \/ ReaderSnapshot /\ HubAtRest
    \/ \E ok \in BOOLEAN : ReaderResolve(ok) /\ HubAtRest
    \/ ReaderEncode /\ HubAtRest

FacetsSpec == IdxInit /\ [][FacetsNext]_vars

\* ----------------------------------------------------- claims on the hub

\* C1: the hub never deadlocks: the control loop is never waiting for the
\* hub mutex while the poller holds that mutex and waits, on the unbuffered
\* broadcast channel, for the control loop to come back to its select.
HubNeverDeadlocks ==
    ~(hubPc = "regLock" /\ mutex = "poller" /\ pollPc = "send")

\* C2: while the register case runs no listing is enqueued to any other
\* client; when it ends, the new client has been sent exactly one message,
\* the last listing, if that listing is not empty, and nothing if it is.
RegisterGreetsOnlyNewClient ==
    [][/\ (hubPc = "select" /\ hubPc' = "regLock") => queue' = queue
       /\ hubPc = "regLock" =>
            /\ \A d \in Clients \ {hubCl} : Len(queue'[d]) <= Len(queue[d])
            /\ hubPc' = "regLock" => Len(queue'[hubCl]) <= Len(queue[hubCl])
            /\ (hubPc' = "select" /\ lastFiles # <<>>) =>
                  /\ Len(queue'[hubCl]) = Len(queue[hubCl]) + 1
                  /\ SubSeq(queue'[hubCl], 1, Len(queue[hubCl])) = queue[hubCl]
                  /\ Unmarshal(queue'[hubCl][Len(queue'[hubCl])]) = lastFiles
            /\ (hubPc' = "select" /\ lastFiles = <<>>) => queue' = queue
      ]_vars

\* C2 (witness): the second client has been registered and holds one
\* message, the last listing, while the first is registered with nothing
\* queued.
RegisterGreetsOnlyNewClientWitness ==
    /\ hubPc = "select"
    /\ clients = {"c1", "c2"}
    /\ lastFiles # <<>>
    /\ pollPc = "wait"
    /\ queue["c2"] = <<Marshal(lastFiles)>>
    /\ queue["c1"] = <<>>

\* C3: a broadcast is one step of the control loop, after which it is back
\* at its select; in it every registered client whose queue is full is
\* removed and its queue closed with nothing added, and every registered
\* client with room stays registered and gets the message appended.  To a
\* closed queue nothing is ever enqueued, and it stays closed.
BroadcastEvictsFullClients ==
    [][/\ (pollPc = "send" /\ pollPc' = "update") =>
            /\ hubPc' = "select"
            /\ \A c \in clients :
                 IF Len(queue[c]) >= SendBuf
                   THEN c \notin clients' /\ closed'[c] /\ queue'[c] = queue[c]
                   ELSE /\ c \in clients' /\ ~closed'[c]
                        /\ queue'[c] = Append(queue[c], Marshal(objects))
            /\ \A c \in Clients \ clients : queue'[c] = queue[c]
       /\ \A c \in Clients :
            closed[c] => closed'[c] /\ c \notin clients' /\ Len(queue'[c]) <= Len(queue[c])
      ]_vars

\* C3 (witness): right after a broadcast, the second client, whose queue
\* was full of an older listing, is evicted (closed without its readPump
\* having unregistered it) and the first holds the broadcast listing.
BroadcastEvictsFullClientsWitness ==
    /\ pollPc = "update"
    /\ "c2" \notin clients /\ closed["c2"] /\ rp["c2"] = "reading"
    /\ Len(queue["c2"]) = SendBuf
    /\ \A i \in 1..Len(queue["c2"]) : queue["c2"][i] # Marshal(objects)
    /\ "c1" \in clients /\ queue["c1"] = <<Marshal(objects)>>

\* C4: a poll takes the bucket's full listing; the comparison goes on to
\* broadcast that listing exactly when it has strictly more objects than
\* the snapshot, and else ends the iteration; the snapshot changes only
\* after that broadcast was taken, to the listing broadcast, so its count
\* only grows.
PollerBroadcastsOnGrowthOnly ==
    [][/\ (pollPc = "wait" /\ pollPc' = "lock") =>
            Range(objects') = bucket /\ Len(objects') = Cardinality(bucket)
       /\ (pollPc = "lock" /\ pollPc' # "lock") =>
            IF Len(objects) > Len(lastFiles)
              THEN pollPc' = "send" /\ objects' = objects
              ELSE pollPc' = "wait"
       /\ (pollPc' = "send") => pollPc \in {"lock", "send"}
       /\ (pollPc = "send" /\ pollPc' # "send") =>
            /\ pollPc' = "update" /\ objects' = objects
            /\ \A c \in Clients : Len(queue'[c]) > Len(queue[c]) =>
                  Unmarshal(queue'[c][Len(queue'[c])]) = objects
       /\ (pollPc # "update") => lastFiles' = lastFiles
       /\ (pollPc = "update" /\ pollPc' # "update") =>
            lastFiles' = objects /\ Len(lastFiles') > Len(lastFiles)
       /\ Len(lastFiles') >= Len(lastFiles)
      ]_vars

\* C4 (witness): the snapshot has been replaced by a two-object listing and
\* a later poll has listed fewer objects.
PollerBroadcastsOnGrowthOnlyWitness ==
    /\ Len(lastFiles) = 2
    /\ pollPc = "lock"
    /\ Len(objects) = 1

\* C5: once a whole iteration of the poller has run on the bucket as it is,
\* a client that is registered with both pumps running has been sent a
\* listing holding every object that was put in the bucket while it was
\* registered and is still there.
EveryAdditionReachesClient ==
    (polled = "done" /\ pollPc = "wait" /\ hubPc = "select") =>
        \A c \in clients :
            (rp[c] = "reading" /\ wp[c] = "running") => owed[c] = {}


\* ------------------------------------------------- claims on the indexer

\* What a pass over the metadata files S gathers when the fetches of F fail.
Gathered(S, F) ==
    [versions |-> UNION {FieldValues(ObjDoc(k), "solana_version") : k \in S \ F},
     statuses |-> UNION {FieldValues(ObjDoc(k), "status") : k \in S \ F},
     uploaders |-> UNION {FieldValues(ObjDoc(k), "uploaded_by") : k \in S \ F},
     nodes |-> UNION {AccKey(EmptyAcc, k).nodes : k \in S},
     slotRanges |-> UNION {AccKey(EmptyAcc, k).slotRanges : k \in S}]

\* Every facet set that is the whole result of one pass over some listing
\* (whatever fetches failed), the cached value, or the initial empty set.
OnePassFacets ==
    {EmptyFacets, CachedOptions}
        \cup {FacetsOf(Gathered(S, F)) : S \in SUBSET Keys, F \in SUBSET Keys}

\* C6: a getFacets reader never observes a partially applied update: the
\* five lists of the response it writes are the five lists of one pass's
\* result, of the cached value, or of the initial empty set.
ReaderSeesOnePass ==
    [][(rdPc = "encode" /\ rdPc' = "idle")
          => Response(ReadNext(rdRead, options)) \in OnePassFacets]_vars

\* C7: when a pass completes, with sidecars or with none, and there is a
\* cache service, the cache holds the resulting facets under the key.
PassResultIsCached ==
    [][\A p \in Passes :
          (cacheService /\ pass[p].pc \in {"none", "work"} /\ pass'[p].pc = "idle")
             => cache' = <<filterOptions'>>]_vars

\* C8: a pass whose cache get returns the value held under the facets key
\* makes that value the in-memory facets and returns from there, without
\* listing the bucket or fetching an object.
CacheHitIsAdopted ==
    [][\A p \in Passes :
          /\ (pass[p].pc = "start" /\ pass'[p].pc = "got")
                => (cache # <<>> /\ pass'[p].got = cache[1])
          /\ (pass[p].pc = "got" /\ pass'[p] # pass[p])
                => (filterOptions' = pass[p].got /\ pass'[p] = PassAt("idle"))]_vars

\* A pass has adopted the cached value and returned, over a bucket that
\* holds sidecars it did not read.
CacheHitIsAdoptedWitness ==
    /\ filterOptions = CachedOptions
    /\ bucket = Keys
    /\ pass["startup"].pc = "idle"

\* C9: a pass whose listing fails ends with the in-memory facets and the
\* cache as they were: neither its cache get nor the failed listing changes
\* them.
ListingFailureChangesNothing ==
    [][\A p \in Passes :
          ((pass[p].pc = "start" /\ pass'[p].pc = "list")
              \/ (pass[p].pc = "list" /\ pass'[p].pc = "idle"))
             => (filterOptions' = filterOptions /\ cache' = cache)]_vars

\* A pass is at its listing, which may fail, with facets in memory and a
\* value in the cache to lose.
ListingFailureChangesNothingWitness ==
    /\ pass["startup"].pc = "list"
    /\ filterOptions \notin {EmptyFacets, CachedOptions}
    /\ cache # <<>>

\* C10: a pass in which the fetch of a sidecar failed removes no value from
\* the facets that were in memory before it wrote.
FetchFailureKeepsFacets ==
    [][\A p \in Passes :
          (pass[p].pc = "work" /\ pass[p].err /\ pass'[p].pc = "idle")
             => \A i \in 1..Len(FacetOrder) :
                   Range(filterOptions[FacetOrder[i]])
                      \subseteq Range(filterOptions'[FacetOrder[i]])]_vars

\* The values a sidecar's content states for a field: a string that is
\* there, other than the empty string and the placeholder "unknown".
Stated(k, f) ==
    IF ObjDoc(k).kind = "object" /\ ObjDoc(k).fields[f].t = "string"
          /\ ObjDoc(k).fields[f].s # <<>> /\ ObjDoc(k).fields[f].s # StrUnknown
      THEN {ObjDoc(k).fields[f].s} ELSE {}

ResultsOverBucket ==
    LET files == MetadataFiles(ListObjects(bucket)) IN
      {CachedOptions}
        \cup (IF files = {} THEN {EmptyFacets}
              ELSE {FacetsOf(Gathered(files, F)) : F \in SUBSET files})

\* C12: with passes running concurrently over an unchanged bucket, once
\* all have returned the facets in memory are the whole result of one pass
\* (or still the initial empty set when every pass failed to list), never
\* lists of two passes; and a pass without a failed fetch leaves the
\* result of a single pass over the bucket, whatever was there and
\* whatever the other pass does.
ConcurrentPassesKeepOneResult ==
    [][/\ (\A p \in Passes : pass'[p].pc = "idle")
            => filterOptions' \in ResultsOverBucket \cup {EmptyFacets}
       /\ \A p \in Passes :
            (pass[p].pc = "work" /\ ~pass[p].err /\ pass'[p].pc = "idle")
               => filterOptions' =
                     FacetsOf(Gathered(MetadataFiles(ListObjects(bucket)), {}))]_vars

\* Both passes are about to write, one with a failed fetch and one with
\* none, over facets that a pass has already written.
ConcurrentPassesKeepOneResultWitness ==
    /\ \A p \in Passes : pass[p].pc = "work" /\ pass[p].todo = {}
    /\ pass["startup"].err # pass["later"].err
    /\ filterOptions \notin {EmptyFacets, CachedOptions}

\* C13: getFacets starts a pass only when the facets behind its pointer are
\* empty: when any of the five lists holds a value it starts none.
GetFacetsStartsPassOnlyWhenEmpty ==
    [][(rdPc = "check" /\ rdPc' = "encode"
          /\ \E p \in Passes : pass[p].pc = "idle" /\ pass'[p].pc = "start")
         => Deref(options) = EmptyFacets]_vars

\* C14: the reindex call leaves nothing under the facets key when it
\* launches its pass, so that the pass cannot adopt facets cached before
\* the call.
ReindexInvalidatesCache ==
    [][(\E p \in Passes : pass[p].pc = "idle" /\ pass'[p].pc = "start")
          => cache' = <<>>]_vars

\* C15: without a cache service, or when a cache call fails, every
\* operation goes on as on a miss: a pass at its cache get goes on to list
\* unless the get returned the value; a getFacets request goes on to encode
\* a facet set, the facets in memory untouched unless the get returned the
\* value; a reindex call launches its pass, the key deleted or left.
CacheFailureIsAMiss ==
    [][/\ \A p \in Passes :
            (pass[p].pc = "start" /\ pass'[p] # pass[p])
               => \/ pass'[p] = PassAt("list") /\ filterOptions' = filterOptions
                  \/ CacheHolds /\ pass'[p].pc = "got"
       /\ (rdPc = "check" /\ rdPc' # rdPc)
            => /\ rdPc' = "encode"
               /\ filterOptions' = filterOptions \/ (CacheHolds /\ filterOptions' = cache[1])
               /\ ~CacheHolds /\ NoOptions(Deref(options))
                    => \E p \in Passes : pass'[p].pc = "start"
       /\ (rdPc' = rdPc /\ \E p \in Passes : pass[p].pc = "idle" /\ pass'[p].pc = "start")
            => /\ filterOptions' = filterOptions
               /\ cache' \in {cache, <<>>}
               /\ ~cacheService => cache' = cache]_vars

\* The cache holds the key, a pass whose get failed is at its listing, and
\* the getFacets request that started it, its own get failed too, encodes
\* an empty facet set.
CacheFailureIsAMissWitness ==
    /\ CacheHolds
    /\ pass["startup"].pc = "list"
    /\ rdPc = "encode"
    /\ options = [live |-> FALSE, val |-> EmptyFacets]

\* ------------------------------------- claims on the object endpoints

\* C16: getObject for a key ending in .tar.gz is answered with the forbidden
\* error and asks the storage for nothing; for every other key the storage
\* is asked for the object.
ArchiveDownloadIsForbidden ==
    http.op = "getObject" =>
        IF HasSuffix(ReqKey(http.key), StrDotTarGz)
          THEN http.code = 403 /\ http.body = ErrorBody /\ ~http.fetched
          ELSE http.fetched

ArchiveDownloadIsForbiddenWitness ==
    /\ http.op = "getObject"
    /\ HasSuffix(ReqKey(http.key), StrDotTarGz)
    /\ http.key \in bucket
    /\ http.code = 403

\* C17: in getObject and in getMetadataRecord alike, a key that is not in
\* the bucket is answered with the not-found outcome, and a storage failure
\* on a key that is there with the internal-error outcome.
AbsentKeyIsNotFound ==
    (http.op \in {"getObject", "getMetadataRecord"} /\ http.fetched /\ ~http.got)
        => http.code = (IF http.key \in bucket THEN 500 ELSE 404)

\* The records of the catalogue's sidecars.
Records == {Record(k) : k \in {c \in Catalogue : IsSidecar(c) /\ GivesRecord(c)}}

\* The records of S that match f.
Matching(S, f) == {r \in S : matchesFilter(r, f)}

\* What the filter's fields other than the two times ask of a record.
FieldsHold(r, f) ==
    /\ f.SolanaVersion # <<>> => r.SolanaVersion = f.SolanaVersion
    /\ f.Status # <<>> => r.Status = f.Status
    /\ f.UploadedBy # <<>> => r.UploadedBy = f.UploadedBy
    /\ f.Node # <<>> => r.Node = f.Node
    /\ f.SlotRange # <<>> => r.SlotRange = f.SlotRange
    /\ f.MinSlot > 0 => f.MinSlot <= r.Slot
    /\ f.MaxSlot > 0 => r.Slot <= f.MaxSlot
    /\ f.SearchTerm # <<>> =>
          \E field \in {r.SolanaVersion, r.Status, r.UploadedBy, r.Node, r.Hash, r.FileName} :
              Contains(ToLower(field), ToLower(f.SearchTerm))

\* Whether instant t is at or before instant u.
TimeLeq(t, u) == t[1] < u[1] \/ (t[1] = u[1] /\ t[2] <= u[2])

\* What the two times ask, a time that is the zero time asking nothing: the
\* timestamp, which for a record without one is the instant 0001-01-01
\* 00:00:00, lies between them.
TimesHold(r, f) ==
    /\ f.StartTime # ZeroTime => TimeLeq(f.StartTime, r.Timestamp)
    /\ f.EndTime # ZeroTime => TimeLeq(r.Timestamp, f.EndTime)

\* C18 as stated: a record matches a filter exactly when every set field
\* among solanaVersion, status, uploadedBy, node, slotRange, minSlot,
\* maxSlot and the search term holds.
MatchIsFieldsOnly ==
    http.op = "matchesFilter" => (http.matched <=> FieldsHold(http.rec, http.filter))

\* C18, amended: a record matches a filter exactly when every set field
\* holds, the start and end times among them; so a filter applied twice
\* gives the same records, and the filter with nothing set matches every
\* record.
MatchIsConjunctionOfSetFields ==
    http.op = "matchesFilter" =>
        /\ http.matched <=> (FieldsHold(http.rec, http.filter) /\ TimesHold(http.rec, http.filter))
        /\ Matching(Matching(Records, http.filter), http.filter) = Matching(Records, http.filter)
        /\ http.filter = EmptyFilter => http.matched

MatchIsConjunctionOfSetFieldsWitness ==
    /\ http.op = "matchesFilter"
    /\ http.matched
    /\ http.filter.SearchTerm = <<65, 66, 67>>
    /\ http.filter.MinSlot > 0
    /\ http.filter.EndTime # ZeroTime
    /\ http.rec.Hash = <<65, 98, 99>>

\* ---------------------------------------- claims on the list endpoint

\* The sidecars of the listing.
Sidecars == {k \in bucket : IsSidecar(k)}

\* C19: a list request with nothing set in its filter reports as total the
\* number of sidecars of the listing, those with malformed or partly typed
\* content among them.
TotalCountsEverySidecar ==
    (http.op = "queryMetadata" /\ http.code = 200 /\ http.filter = EmptyFilter)
        => http.body.total = Cardinality(Sidecars)

\* C20: the items of a list response whose matching records all have a
\* timestamp are in non-increasing timestamp order, and those of one whose
\* matching records all have none are in non-increasing slot order.
ItemsAreNewestFirst ==
    [][(http'.op = "queryMetadata" /\ http'.code = 200) =>
        LET items == http'.body.items
            matching == {Record(k) : k \in {c \in Sidecars :
                            GivesRecord(c) /\ matchesFilter(Record(c), http'.filter)}}
        IN  /\ (\A r \in matching : r.Timestamp # ZeroTime)
                  => \A i, j \in 1..Len(items) :
                        i < j => TimeLeq(items[j].Timestamp, items[i].Timestamp)
            /\ (\A r \in matching : r.Timestamp = ZeroTime)
                  => \A i, j \in 1..Len(items) :
                        i < j => items[i].Slot >= items[j].Slot]_vars

ItemsAreNewestFirstWitness ==
    /\ http.op = "queryMetadata"
    /\ http.code = 200
    /\ http.filter = EmptyFilter
    /\ Len(http.body.items) = 3
    /\ \A i \in 1..3 : http.body.items[i].Timestamp # ZeroTime
    /\ http.body.items[3].Slot > http.body.items[1].Slot

\* ------------------------------------------------ claims on pagination

\* Whether page p of size s lies past a list of t records, for p a 64-bit
\* quantity.
PastTheEnd(p, s, t) == p[3] # 0 \/ p[4] # 0 \/ p[2] >= 2000 \/ (Narrow(p) - 1) * s >= t

\* The records of the list at places (q-1)*s up to min(q*s, T)-1.
Slice(list, q, s) ==
    SubSeq(list, (q - 1) * s + 1, IF q * s < Len(list) THEN q * s ELSE Len(list))

\* C21: for T matching records, page p >= 1 and page size s the items are
\* the sorted records at places (p-1)*s up to min(p*s, T)-1, none when
\* (p-1)*s >= T, the total is T whatever the page, and pages 1..ceil(T/s)
\* are the consecutive slices of the sorted list, so that one after the
\* other they are the whole list.
PagesPartitionTheList ==
    http.op = "paged" =>
        LET T == http.total
            p == http.params.page
            s == http.params.pageSize
            list == Ranked(T)
        IN  /\ http.out.kind = "list"
            /\ http.out.total = T
            /\ http.out.items =
                  (IF PastTheEnd(p, s, T) THEN <<>> ELSE Slice(list, Narrow(p), s))
            /\ \A q \in 1..((T + s - 1) \div s) :
                  PageOf(list, FormatInt(q), http.pageSize).items = Slice(list, q, s)

FormOf(key) ==
    {<<SubSeq(key, 10, e), SubSeq(key, e + 2, Len(key) - 5)>> :
        e \in {x \in 10..(Len(key) - 7) :
                  /\ SubSeq(key, 1, 9) = StrSnapshotDash
                  /\ SubSeq(key, Len(key) - 4, Len(key)) = StrDotJson
                  /\ key[x + 1] = 45
                  /\ \A i \in 10..x : key[i] \in 48..57
                  /\ \A i \in (x + 2)..(Len(key) - 5) :
                        key[i] \in (48..57) \cup (65..90) \cup (97..122)}}

\* Whether the digits write a number of at most 2^63 - 1.
FitsInt64(digits) ==
    LET sig == StripZeros(digits)
    IN  Len(sig) < 19 \/ (Len(sig) = 19 /\ ~StrLess(<<57, 50, 50, 51, 51, 55, 50, 48, 51, 54, 56, 53, 52, 55, 55, 53, 56, 48, 55>>, sig))

\* Whether the number is the one the digits write.
Writes(digits, n) ==
    FormatInt(n) = (IF StripZeros(digits) = <<>> THEN <<48>> ELSE StripZeros(digits))

\* C23 as stated: for a key snapshot-N-node.json, N digits of any length,
\* isSnapshotMetadataFile is true and extractSlotAndNode gives (N, node).
SidecarKeyGivesSlotAndNode ==
    http.op = "classified" =>
        \A f \in FormOf(http.key) :
            http.sidecar /\ Writes(f[1], http.slotNode[1]) /\ http.slotNode[2] = f[2]

\* C23, amended: for a key snapshot-N-node.json whose N is at most
\* 2^63 - 1, isSnapshotMetadataFile is true and extractSlotAndNode gives
\* (N, node); for a larger N isSnapshotMetadataFile is true as well and
\* extractSlotAndNode gives (0, "").
SidecarKeyGivesSlotAndNodeInRange ==
    http.op = "classified" =>
        \A f \in FormOf(http.key) :
            /\ http.sidecar
            /\ FitsInt64(f[1]) => (Writes(f[1], http.slotNode[1]) /\ http.slotNode[2] = f[2])
            /\ ~FitsInt64(f[1]) => http.slotNode = <<0, <<>>>>

SidecarKeyGivesSlotAndNodeInRangeWitness ==
    /\ http.op = "classified"
    /\ \E f \in FormOf(http.key) : f[1] = <<48, 48, 55>>
    /\ http.slotNode = <<7, <<97, 66, 51>>>>

\* C24: a key that is not snapshot-N-node.json is no sidecar for
\* isSnapshotMetadataFile and gives (0, "") in extractSlotAndNode, and the
\* two agree on every key: one says sidecar exactly when the other gives
\* something else than (0, "").
OtherKeyIsNoSidecar ==
    http.op = "classified" =>
        /\ FormOf(http.key) = {} => (~http.sidecar /\ http.slotNode = <<0, <<>>>>)
        /\ http.sidecar <=> http.slotNode # <<0, <<>>>>

\* The label C25 states for a slot that is not negative.
StatedRange(slot) ==
    LET k == DivMillion(slot).mag
    IN  IF k = WideZero THEN StrLt1M
        ELSE FormatInt64([neg |-> FALSE, mag |-> k]) \o StrMDash
                \o FormatInt64([neg |-> FALSE, mag |-> WideAdd(k, WideOf(1))]) \o StrM

\* C25: getSlotRange gives "< 1M" for a slot in 0..999999 and "<k>M-<k+1>M"
\* with k = floor(slot / 1000000) for a slot from 1000000 on, and a record
\* of getMetadataRecord whose slot is positive carries getSlotRange of its
\* slot as its slot range.
SlotRangeIsTheWindowOfTheSlot ==
    /\ (http.op = "slotRange" /\ ~http.slot.neg) => http.label = StatedRange(http.slot)
    /\ (http.op = "getMetadataRecord" /\ http.code = 200 /\ http.body.kind = "record"
            /\ http.body.rec.Slot > 0)
          => http.body.rec.SlotRange = getSlotRange(http.body.rec.Slot)

\* The two halves of C25 apart.
SlotRangeLabelIsAsStated ==
    (http.op = "slotRange" /\ ~http.slot.neg) => http.label = StatedRange(http.slot)

RecordCarriesItsSlotRange ==
    (http.op = "getMetadataRecord" /\ http.code = 200 /\ http.body.kind = "record"
        /\ http.body.rec.Slot > 0)
      => http.body.rec.SlotRange = getSlotRange(http.body.rec.Slot)

\* The labels are as stated for every slot below the last window of int64.
SlotRangeLabelBelowLastWindow ==
    (http.op = "slotRange" /\ ~http.slot.neg
        /\ WideLess(http.slot.mag, <<0, 36854, 223372, 9>>))
      => http.label = StatedRange(http.slot)

\* The components of a version, whether there are three of them and all are
\* written in digits, what they are worth, and the order by (major, minor,
\* patch) as numbers.
Components(v) == Split(v, 46)

ThreeNumeric(v) ==
    /\ Len(Components(v)) = 3
    /\ \A n \in 1..3 :
          /\ Components(v)[n] # <<>>
          /\ \A i \in 1..Len(Components(v)[n]) : IsDigit(Components(v)[n][i])

Worth(v, n) == WideDigits(StripZeros(Components(v)[n]))

FitsInt(v) == \A n \in 1..3 : WideLess(Worth(v, n), Two63)

NumericallyBefore(a, b) ==
    \E n \in 1..3 :
        /\ WideLess(Worth(a, n), Worth(b, n))
        /\ \A k \in 1..(n - 1) : Worth(a, k) = Worth(b, k)

\* C26 as stated: of versions of three numeric components the facet holds
\* each once, in ascending order of (major, minor, patch) taken as numbers.
VersionsFacetIsNumericallySorted ==
    (http.op = "versionsFacet" /\ \A v \in http.set : ThreeNumeric(v))
      => /\ Range(http.list) = http.set
         /\ Len(http.list) = Cardinality(http.set)
         /\ \A i, j \in 1..Len(http.list) :
               i < j => ~NumericallyBefore(http.list[j], http.list[i])

\* C26 for components that fit an int: of versions of three numeric
\* components below 2^63 the facet holds each once, in ascending order of
\* (major, minor, patch) taken as numbers.
VersionsFacetIsNumericallySortedInRange ==
    (http.op = "versionsFacet" /\ \A v \in http.set : ThreeNumeric(v) /\ FitsInt(v))
      => /\ Range(http.list) = http.set
         /\ Len(http.list) = Cardinality(http.set)
         /\ \A i, j \in 1..Len(http.list) :
               i < j => ~NumericallyBefore(http.list[j], http.list[i])

VersionsFacetIsNumericallySortedInRangeWitness ==
    /\ http.op = "versionsFacet"
    /\ http.set = {<<49, 46, 49, 48, 46, 48>>, <<49, 46, 57, 46, 48>>, <<49, 46, 50, 46, 48>>}
    /\ http.list = <<<<49, 46, 50, 46, 48>>, <<49, 46, 57, 46, 48>>, <<49, 46, 49, 48, 46, 48>>>>

\* What the content of object k states for a member that is to be a
\* string, and for its timestamp: nothing when the member is missing or of
\* another type.
StatedText(v) == IF v.t = "string" THEN v.s ELSE <<>>
StatedTime(v) == IF v.t = "number" THEN Unix(v.n) ELSE ZeroTime

PumpFailed(c) == rp[c] = "unregistering" \/ wp[c] = "done"

TornDown(c) ==
    /\ c \notin clients
    /\ closed[c]
    /\ rp[c] = "done"
    /\ wp[c] = "done"
    /\ ~ConnOpen(c)

\* C28: after a write error of its writePump or a read error of its
\* readPump a client is eventually out of the registry with its queue
\* closed, its connection closed and both pumps ended.
PumpErrorTearsDown == \A c \in Clients : PumpFailed(c) ~> TornDown(c)

\* The control loop waits for the mutex the poller holds while the poller
\* waits for the control loop to take its broadcast.
HubStuck == hubPc = "regLock" /\ mutex = "poller" /\ pollPc = "send"

\* The same where the control loop never gets stuck.
PumpErrorTearsDownUnlessStuck ==
    ([]~HubStuck) => (\A c \in Clients : PumpFailed(c) ~> TornDown(c))

\* The step in which pass p returns from its work, and the files its
\* listing gave.
Returns(p) == pass[p].pc = "work" /\ pass'[p].pc = "idle"

Listed == MetadataFiles(ListObjects(bucket))

\* C29: a pass writes the facets and returns only when no file is left on
\* the queue and no worker is at a file, every listed sidecar then taken
\* and processed exactly once and nothing else processed; and a pass at
\* work returns, every storage call returning.
PoolJoinsAndDrains ==
    /\ [][\A p \in Passes :
             /\ Returns(p) =>
                   /\ pass[p].todo = {} /\ pass[p].busy = {}
                   /\ \A k \in Catalogue :
                         pass[p].times[k] = IF k \in Listed THEN 1 ELSE 0
             /\ (pass[p].pc = "work" /\ filterOptions' # filterOptions) => Returns(p)
             /\ (pass[p].pc = "work" /\ pass'[p].pc = "work") =>
                   /\ pass'[p].todo \subseteq pass[p].todo
                   /\ pass'[p].busy \cap pass'[p].todo = {}
                   /\ \A k \in Catalogue : pass'[p].times[k] <= 1]_vars
    /\ \A p \in Passes : (pass[p].pc = "work") ~> (pass[p].pc = "idle")

\* A pass is about to return with four files listed, each processed once,
\* one of them with a failed fetch.
PoolJoinsAndDrainsWitness ==
    /\ pass["startup"].pc = "work"
    /\ pass["startup"].todo = {} /\ pass["startup"].busy = {}
    /\ Cardinality(Listed) = 4
    /\ \A k \in Listed : pass["startup"].times[k] = 1
    /\ pass["startup"].err

\* Three fetches of a pass are in flight at once.
PoolWorksInParallel == \A p \in Passes : Cardinality(pass[p].busy) < 3

\* C30: the fetches the indexer has in flight, over all its passes, are
\* never more than 10.
FetchesInFlight == Cardinality(pass["startup"].busy) + Cardinality(pass["later"].busy)

AtMostTenFetchesInFlight == FetchesInFlight <= 10

\* No pass has more than 10 fetches in flight.
AtMostTenFetchesPerPass == \A p \in Passes : Cardinality(pass[p].busy) <= workerCount

\* ------------------------------------------------------------------- C31

\* Whether slot s is below slot t (both at least 0).
SlotBefore(s, t) == WideLess(s.mag, t.mag)

\* C31: the slot ranges facet lists every label of the sidecars' slots once,
\* "< 1M" first when it is there and the others by ascending numeric prefix,
\* so that a label listed before another stands for smaller slots.
SlotRangesFacetIsInSlotOrder ==
    http.op = "slotRangesFacet" =>
        LET list == http.list
            slots == {s \in http.set : s # IntZero}
        IN  /\ Range(list) = SlotRangesOf(http.set)
            /\ Len(list) = Cardinality(SlotRangesOf(http.set))
            /\ StrLt1M \in Range(list) => list[1] = StrLt1M
            /\ \A i, j \in 1..Len(list) :
                  (i < j /\ list[i] # StrLt1M)
                      => WideLess(LeadingNumber(list[i]), LeadingNumber(list[j]))
            /\ \A i, j \in 1..Len(list) : \A s, t \in slots :
                  (i < j /\ getSlotRange64(s) = list[i] /\ getSlotRange64(t) = list[j])
                      => SlotBefore(s, t)

\* The facet of the example: "< 1M", "2M-3M", "10M-11M".
SlotRangesFacetIsInSlotOrderWitness ==
    /\ http.op = "slotRangesFacet"
    /\ http.list = <<StrLt1M,
                     <<50, 77, 45, 51, 77>>,
                     <<49, 48, 77, 45, 49, 49, 77>>>>

\* ------------------------------------------------------------------- C32

\* C32: in the items of a list response the records with a timestamp are in
\* non-increasing timestamp order among themselves and the records without
\* one in non-increasing slot order among themselves, however the two
\* groups interleave.
GroupsAreOrderedWithinThemselves ==
    (http.op = "queryMetadata" /\ http.code = 200) =>
        LET items == http.body.items
        IN  \A i, j \in 1..Len(items) :
              i < j =>
                /\ (~IsZero(items[i].Timestamp) /\ ~IsZero(items[j].Timestamp))
                      => ~After(items[j].Timestamp, items[i].Timestamp)
                /\ (IsZero(items[i].Timestamp) /\ IsZero(items[j].Timestamp))
                      => items[i].Slot >= items[j].Slot

\* ------------------------------------------------------------------- C33

\* C33: once the context is cancelled the control loop and the poller both
\* return, and a connection handler that is sending on register or on
\* unregister gets its send through.
CancelStopsTheHub ==
    /\ ctxDone ~> (hubPc = "returned" /\ pollPc = "returned")
    /\ \A c \in Clients : (ctxDone /\ srv[c] = "registering") ~> (srv[c] = "served")
    /\ \A c \in Clients : (ctxDone /\ rp[c] = "unregistering") ~> (rp[c] = "done")

\* The part of C33 about the two loops.
CancelStopsTheLoops == ctxDone ~> (hubPc = "returned" /\ pollPc = "returned")

\* The part of C33 about the connection handlers.
CancelLeavesNoHandlerBlocked ==
    \A c \in Clients :
        /\ (ctxDone /\ srv[c] = "registering") ~> (srv[c] = "served")
        /\ (ctxDone /\ rp[c] = "unregistering") ~> (rp[c] = "done")

\* The poller returns when it is cancelled between two iterations and no
\* connection was ever opened.
IdlePollerStops ==
    (ctxDone /\ pollPc = "wait" /\ \A c \in Clients : srv[c] = "idle") ~> (pollPc = "returned")

\* ------------------------------------------------------------------- C34

\* C34: the listing holds every object of the bucket, however many there
\* are and whatever the size of the backend's page, so that a bucket with
\* more objects gives a listing with more objects.
ListingHoldsEveryObject ==
    http.op = "listed" =>
        /\ Range(http.objects) = bucket
        /\ \A b \in SUBSET bucket :
              Cardinality(b) < Cardinality(bucket)
                  => Len(ListObjectsPaged(b, http.pageKeys)) < Len(http.objects)

\* The listing holds every object of a bucket that the backend's page holds.
ListingHoldsEveryObjectOfOnePage ==
    (http.op = "listed" /\ Cardinality(bucket) <= http.pageKeys)
        => Range(http.objects) = bucket

\* ------------------------------------------------------------------- C35

\* The step is the control loop's unregister case for c.
TakesUnregister(c) == rp[c] = "unregistering" /\ rp'[c] = "done"

\* The step closes c's queue: the unregister case on a client it removes,
\* or a broadcast that finds c's queue full.
Closes(c) ==
    \/ TakesUnregister(c) /\ UnregisterApplies(clients, c)
    \/ pollPc = "send" /\ pollPc' = "update" /\ c \in clients /\ ~HasRoom(queue[c])

\* C35: a registered client's queue is open and a removed client's queue is
\* closed; a queue is closed only while it is open, and stays closed; the
\* hub enqueues only to registered clients, whose queues are open; an
\* unregister for a client that is no longer registered changes nothing; and
\* only a client that was never registered is put in the registry.
RegistryAndQueuesAgree ==
    /\ [](\A c \in Clients :
            /\ c \in clients => (~closed[c] /\ srv[c] = "served")
            /\ (srv[c] = "served" /\ c \notin clients) => closed[c])
    /\ [][\A c \in Clients :
            /\ Closes(c) => (~closed[c] /\ closed'[c])
            /\ closed[c] => closed'[c]
            /\ Len(queue'[c]) > Len(queue[c]) => (c \in clients' /\ ~closed[c] /\ ~closed'[c])
            /\ (TakesUnregister(c) /\ c \notin clients)
                  => (clients' = clients /\ closed' = closed /\ queue' = queue)
            /\ (c \in clients' /\ c \notin clients)
                  => (srv[c] = "registering" /\ rp[c] = "off" /\ ~closed[c])
            /\ srv[c] = "served" => srv'[c] = "served"
         ]_vars

\* The first client was evicted by a broadcast and its unregister has been
\* taken since, with the second client registered.
RegistryAndQueuesAgreeWitness ==
    /\ rp["c1"] = "done"
    /\ closed["c1"]
    /\ Len(queue["c1"]) = SendBuf
    /\ clients = {"c2"}
    /\ ~closed["c2"]

\* ------------------------------------------------------------------- C36

\* The step enqueues a listing to c.
EnqueuesTo(c) == Len(queue'[c]) > Len(queue[c])

\* C36: the listings enqueued to a client have strictly increasing object
\* counts, so none is enqueued to it twice; the listing of the register case
\* is the first one a client is sent, and a broadcast enqueues the listing
\* the poller is sending, once to each client.
ListingsToAClientGrow ==
    /\ [](\A c \in Clients : \A i, j \in 1..Len(sent[c]) : i < j => sent[c][i] < sent[c][j])
    /\ [][\A c \in Clients :
            EnqueuesTo(c) =>
              /\ Len(queue'[c]) = Len(queue[c]) + 1
              /\ hubPc = "regLock" =>
                    (c = hubCl /\ sent[c] = <<>> /\ sent'[c] = <<Len(lastFiles)>>)
              /\ hubPc # "regLock" =>
                    (pollPc = "send" /\ pollPc' = "update"
                        /\ Unmarshal(queue'[c][Len(queue'[c])]) = objects
                        /\ Len(objects) > Len(lastFiles))
         ]_vars

\* The second client registered after the first listing was broadcast, was
\* greeted with it and has been sent the next listing since.
ListingsToAClientGrowWitness ==
    /\ sent["c1"] = <<1, 2>>
    /\ sent["c2"] = <<1, 2>>
    /\ clients = {"c1", "c2"}

\* ------------------------------------------------------------------- C37

\* Whether the 64-bit int a is at most the 64-bit int b.
IntLeq(a, b) ==
    IF a.neg /\ b.neg THEN ~WideLess(a.mag, b.mag)
    ELSE IF a.neg THEN TRUE
    ELSE IF b.neg THEN FALSE
    ELSE ~WideLess(b.mag, a.mag)

\* C37: for the page and the page size taken from the request and a total
\* of at least 0, calculatePaginationBounds, computed in 64-bit ints, gives
\* 0 <= start <= end <= total, so that ListMetadata's slice expression is
\* within range.
BoundsAreWithinTheList ==
    http.op = "paged" =>
        LET bounds == calculatePaginationBounds(http.params.page, http.params.pageSize,
                                                http.total)
            total == [neg |-> FALSE, mag |-> WideOf(http.total)]
        IN  /\ IntLeq(IntZero, bounds[1])
            /\ IntLeq(bounds[1], bounds[2])
            /\ IntLeq(bounds[2], total)
            /\ http.out.kind # "panic"

\* The same for the pages whose product with the page size is within 64
\* bits.
BoundsAreWithinTheListWithoutOverflow ==
    (http.op = "paged"
        /\ WideLess(WideMul(WideSub(http.params.page, WideOf(1)), http.params.pageSize), Two63))
      => LET bounds == calculatePaginationBounds(http.params.page, http.params.pageSize,
                                                 http.total)
             total == [neg |-> FALSE, mag |-> WideOf(http.total)]
         IN  /\ IntLeq(IntZero, bounds[1])
             /\ IntLeq(bounds[1], bounds[2])
             /\ IntLeq(bounds[2], total)
             /\ http.out.kind # "panic"

\* ---------------------------------------------------------------------------
\* C38: records without a timestamp under startTime and endTime
\* ---------------------------------------------------------------------------

\* A filter that sets the end time and nothing else.
OnlyEndTime(f) == ~IsZero(f.EndTime) /\ [f EXCEPT !.EndTime = ZeroTime] = EmptyFilter

\* C38, as stated: a record of the strict decode has the zero timestamp; a
\* record with the zero timestamp matches no filter that sets a start time,
\* and matches every filter that sets the end time alone.
ZeroTimestampFailsStartAndPassesEnd ==
    http.op = "matchesFilter" =>
        /\ StrictDecodes(ObjDoc(http.key)) => IsZero(http.rec.Timestamp)
        /\ IsZero(http.rec.Timestamp) =>
              /\ ~IsZero(http.filter.StartTime) => ~http.matched
              /\ OnlyEndTime(http.filter) => http.matched

\* C38, for the dates of year 1 and later: a record of the strict decode has
\* the zero timestamp; a record with the zero timestamp matches no filter
\* whose start time is after 0001-01-01, and matches every filter that sets
\* alone an end time of 0001-01-01 or later.
ZeroTimestampFailsLaterStartAndPassesLaterEnd ==
    http.op = "matchesFilter" =>
        /\ StrictDecodes(ObjDoc(http.key)) => IsZero(http.rec.Timestamp)
        /\ IsZero(http.rec.Timestamp) =>
              /\ http.filter.StartTime[1] > 0 => ~http.matched
              /\ (OnlyEndTime(http.filter) /\ TimeLeq(ZeroTime, http.filter.EndTime))
                    => http.matched

\* A record of the strict decode is turned down by a filter that sets the
\* start time 1970-01-03 and nothing else.
ZeroTimestampFailsLaterStartAndPassesLaterEndWitness ==
    /\ http.op = "matchesFilter"
    /\ StrictDecodes(ObjDoc(http.key))
    /\ IsZero(http.rec.Timestamp)
    /\ http.filter = [EmptyFilter EXCEPT !.StartTime = <<EpochDay + 2, 0>>]
    /\ ~http.matched

\* ---------------------------------------------------------------------------
\* C39: the facets and the list requests over the same bucket
\* ---------------------------------------------------------------------------

\* C39: over a bucket that stays as it is, a value a facet lists selects at
\* least one record when it is the only filter of a list request, and the
\* indexer and the list request take the same sidecars from the listing.
FacetValuesSelectARecord ==
    http.op = "facetQuery" =>
        /\ http.listed => http.matching # {}
        /\ http.indexed = http.metadataFiles

\* The part of it that holds: the versions, statuses and uploaders a facet
\* lists each select a record, and the two take the same sidecars.
ContentFacetValuesSelectARecord ==
    http.op = "facetQuery" =>
        /\ (http.listed /\ http.field[1] \in {"SolanaVersions", "Statuses", "UploadedBy"})
              => http.matching # {}
        /\ http.indexed = http.metadataFiles

\* ---------------------------------------------------------------------------
\* C40: the bytes of an archive
\* ---------------------------------------------------------------------------

\* C40: no request for a key ending in .tar.gz, to getObject or to
\* getMetadataRecord, is answered with the object's bytes.
NoRequestReturnsArchiveBytes ==
    (http.op \in {"getObject", "getMetadataRecord"} /\ HasSuffix(ReqKey(http.key), StrDotTarGz))
        => http.body.kind # "content"

====
